---- MODULE Spec2Model ----
(***************************************************************************)
(* Loan-submission review workflow (Django apps `users`, `submissions`).   *)
(*                                                                         *)
(* The state is the content of the four tables the views read and write    *)
(* (Submission, SubmissionField, Upload, SubmissionEvent); a row's primary *)
(* key is its position in the table's sequence.  Every view is one action: *)
(* a whole request, from the permission checks to the response.            *)
(*                                                                         *)
(* Text that the code converts (key paths, labels, field values) is a      *)
(* sequence of one-character strings, so that join / strip / trial parse   *)
(* are computed; text that is only stored (titles, messages, file names)   *)
(* is an atomic string.                                                    *)
(***************************************************************************)
EXTENDS Integers, Sequences, FiniteSets, TLC

(***************************************************************************)
(* Bounds of the model.                                                    *)
(***************************************************************************)
MaxSubmissions == 1
MaxUploads == 1
MaxEvents == 2
\* The longest value string the type guess is tried on.
MaxValueLen == 4
\* The most accounts signup creates.
MaxSignups == 2
\* The most rows the first sheet of a workbook has.
MaxRows == 3
\* The most records a parse yields in SpecRecords.
MaxRecords == 2

(***************************************************************************)
(* Python values.                                                          *)
(***************************************************************************)
\* None, where a text (a sequence of characters) may stand as well.
None == <<"<None>">>
\* A missing file / a missing POST parameter, where an atomic string may stand.
Absent == "<absent>"
\* dict(): the empty mapping.
EmptyDict == [k \in {} |-> <<>>]

RECURSIVE JoinSeq(_, _)
\* sep.join(parts)
JoinSeq(parts, sep) ==
  IF parts = <<>> THEN <<>>
  ELSE IF Len(parts) = 1 THEN parts[1]
  ELSE parts[1] \o sep \o JoinSeq(Tail(parts), sep)

\* [x for x in seq if x]  (drops "" and None)
Truthy(tokens) == SelectSeq(tokens, LAMBDA t : t # <<>> /\ t # None)

Whitespace == {" "}

RECURSIVE LStrip(_)
LStrip(s) == IF s # <<>> /\ Head(s) \in Whitespace THEN LStrip(Tail(s)) ELSE s

RECURSIVE RStrip(_)
RStrip(s) ==
  IF s # <<>> /\ s[Len(s)] \in Whitespace THEN RStrip(SubSeq(s, 1, Len(s) - 1)) ELSE s

\* str.strip()
Strip(s) == LStrip(RStrip(s))

\* s.replace(",", "")
RemoveCommas(s) == SelectSeq(s, LAMBDA c : c # ",")

Digits == {"0", "1", "2", "3", "4", "5", "6", "7", "8", "9"}

\* Decimal(text) does not raise InvalidOperation: surrounding whitespace, an
\* optional sign, digits with at most one point and at least one digit
\* (over the alphabet of the model: no exponent, NaN or Infinity).
ParsesAsDecimal(text) ==
  LET t == Strip(text)
      body == IF t # <<>> /\ Head(t) \in {"-", "+"} THEN Tail(t) ELSE t
      digs == SelectSeq(body, LAMBDA c : c \in Digits)
      pts == SelectSeq(body, LAMBDA c : c = ".")
  IN /\ Len(digs) >= 1
     /\ Len(pts) <= 1
     /\ Len(digs) + Len(pts) = Len(body)

GuessWithoutRemovingCommas(value_str) ==
  IF ParsesAsDecimal(value_str) THEN "NUMBER" ELSE "TEXT"

\* Lines 119-124, in extract_fields_from_upload:
\* Decimal(value_str.replace(",", "")) in a try block, NUMBER when it parses.
GuessDataType(value_str) ==
  IF ParsesAsDecimal(RemoveCommas(value_str)) THEN "NUMBER" ELSE "TEXT"

\* Lines 147-152, in _records_to_field_specs: the same trial parse, which also
\* catches AttributeError (value_str is always a str: it cannot occur).
RecordDataType(value_str) ==
  IF ParsesAsDecimal(RemoveCommas(value_str)) THEN "NUMBER" ELSE "TEXT"

VARIABLES submissions, fields, uploads, events, signups, workbook, inflight, last

vars == <<submissions, fields, uploads, events, signups, workbook, inflight, last>>

\* `inflight`: where the two requests of SpecRace stand; here none is under way.
NoneInFlight == [edit |-> [pc |-> "idle"], review |-> [pc |-> "idle"]]

(***************************************************************************)
(* Users (users.models.User): role and the two framework flags.            *)
(***************************************************************************)
Roles == {"ADMIN", "BORROWER", "LENDER"}

\* The accounts that exist from the start (made in the admin site or by
\* createsuperuser, which leaves role at its default), by primary key.
UserIds == {1, 2, 3, 4, 5, 6}

\* The primary key of the i-th account that signup created.
SignupId(i) == 6 + i

\* Every account: the ones of the start and the ones signup created.
AccountIds == UserIds \cup {SignupId(i) : i \in 1..Len(signups)}

User(u) ==
  CASE u \notin UserIds ->
         [role |-> signups[u - 6].role,
          is_staff |-> signups[u - 6].is_staff,
          is_superuser |-> signups[u - 6].is_superuser]
    [] u = 1 -> [role |-> "BORROWER", is_staff |-> FALSE, is_superuser |-> FALSE]
    [] u = 2 -> [role |-> "LENDER", is_staff |-> FALSE, is_superuser |-> FALSE]
    [] u = 3 -> [role |-> "ADMIN", is_staff |-> TRUE, is_superuser |-> FALSE]
    [] u = 4 -> [role |-> "ADMIN", is_staff |-> FALSE, is_superuser |-> FALSE]
    [] u = 5 -> [role |-> "BORROWER", is_staff |-> FALSE, is_superuser |-> TRUE]
    [] u = 6 -> [role |-> "BORROWER", is_staff |-> FALSE, is_superuser |-> FALSE]

is_borrower(u) == User(u).role = "BORROWER"

is_lender(u) == User(u).role = "LENDER"

LenderLikeWithoutFlags(u) == is_lender(u)

_is_lender_like(u) == is_lender(u) \/ User(u).is_staff \/ User(u).is_superuser

(***************************************************************************)
(* Uploaded files and what the two extractors make of them.  The ntpd      *)
(* extractor and openpyxl are outside the repository: what they return or  *)
(* raise for a file is an input, drawn from the outcomes below.            *)
(***************************************************************************)
Files == {"ntpd.xlsx", "revised.xlsx", "plain.xlsx", "doc.pdf"}

\* Nested payload nodes: a dict node or a leaf value.
Leaf(v) == [kind |-> "leaf", v |-> v]
Node(items) == [kind |-> "dict", items |-> items]
EmptyPayload == Node(EmptyDict)

NtpdPayload ==
  Node(<<"s">> :> Node(<<"a">> :> Leaf(<<"1">>) @@ <<"b">> :> Leaf(None)))

\* The records parse_with_ntpd builds: key_path, label_path, value (a string
\* or None after _stringify_value).
NtpdRecords ==
  << [key_path |-> << <<"s">>, <<"a">> >>,
      label_path |-> << <<"S">>, <<"A">> >>,
      value |-> <<"1">>],
     [key_path |-> << <<"s">>, <<"b">> >>,
      label_path |-> << <<"S">>, <<>> >>,
      value |-> None] >>

\* The records of a later version of the same workbook: s.a changed, s.b
\* gone, s.c new.
RevisedPayload ==
  Node(<<"s">> :> Node(<<"a">> :> Leaf(<<"5">>) @@ <<"c">> :> Leaf(<<"7">>)))

RevisedRecords ==
  << [key_path |-> << <<"s">>, <<"a">> >>,
      label_path |-> << <<"S">>, <<"A">> >>,
      value |-> <<"5">>],
     [key_path |-> << <<"s">>, <<"c">> >>,
      label_path |-> << <<"S">>, <<"C">> >>,
      value |-> <<"7">>] >>

\* parse_with_ntpd(path): returns (parsed, records), raises
\* NTPDParserUnavailable (modules or SHEET_SPECS missing) or the extractor's
\* own exception.
ParseOutcomes(file) ==
  CASE file = "ntpd.xlsx" ->
         {[kind |-> "ok", payload |-> NtpdPayload, records |-> NtpdRecords],
          [kind |-> "unavailable", payload |-> EmptyPayload, records |-> <<>>]}
    [] file = "revised.xlsx" ->
         {[kind |-> "ok", payload |-> RevisedPayload, records |-> RevisedRecords],
          [kind |-> "error", payload |-> EmptyPayload, records |-> <<>>]}
    [] file = "plain.xlsx" ->
         {[kind |-> "ok", payload |-> EmptyPayload, records |-> <<>>],
          [kind |-> "error", payload |-> EmptyPayload, records |-> <<>>]}
    [] OTHER ->
         {[kind |-> "error", payload |-> EmptyPayload, records |-> <<>>],
          [kind |-> "unavailable", payload |-> EmptyPayload, records |-> <<>>]}

\* openpyxl.load_workbook(path) and the first sheet's rows, columns A and B
\* (a cell is None or the str() text of its value); a file that is no
\* workbook makes load_workbook raise.
FirstSheet(file) ==
  CASE file = "ntpd.xlsx" ->
         [readable |-> TRUE,
          rows |-> << << <<"A">>, <<"1", ",", "0">> >> >>]
    [] file = "revised.xlsx" ->
         [readable |-> TRUE,
          rows |-> << << <<"A">>, <<"5">> >> >>]
    [] file = "plain.xlsx" ->
         [readable |-> TRUE,
          rows |-> << << <<" ", "A", " ", "b">>, <<" ", "x">> >>,
                      << None, <<"2">> >>,
                      << <<"C">>, <<"2">> >> >>]
    [] OTHER -> [readable |-> FALSE, rows |-> <<>>]

(***************************************************************************)
(* Extraction helpers of submissions/views.py.                             *)
(***************************************************************************)
RECURSIVE CollapseWhitespace(_)
\* re.sub(r"\s+", "_", s)
CollapseWhitespace(s) ==
  IF s = <<>> THEN <<>>
  ELSE IF Head(s) \in Whitespace
       THEN <<"_">> \o CollapseWhitespace(LStrip(s))
       ELSE <<Head(s)>> \o CollapseWhitespace(Tail(s))

_auto_name_from_label(label) == CollapseWhitespace(Strip(label))

\* f"field_{idx}" and f"Field {idx}"
DefaultName(idx) == <<"field_", ToString(idx)>>
DefaultLabel(idx) == <<"Field ", ToString(idx)>>

RECURSIVE ExtractRowsCountingSkipped(_, _)
ExtractRowsCountingSkipped(rows, order) ==
  IF rows = <<>> THEN <<>>
  ELSE LET label_cell == Head(rows)[1]
           value_cell == Head(rows)[2]
       IN IF label_cell = None \/ value_cell = None
          THEN ExtractRowsCountingSkipped(Tail(rows), order + 1)
          ELSE << [name |-> _auto_name_from_label(Strip(label_cell)),
                   label |-> Strip(label_cell),
                   value |-> Strip(value_cell),
                   data_type |-> GuessDataType(Strip(value_cell)),
                   order |-> order] >>
                 \o ExtractRowsCountingSkipped(Tail(rows), order + 1)

RECURSIVE ExtractRows(_, _)
\* The loop of extract_fields_from_upload over the rows still to read, `order`
\* being the next order number.
ExtractRows(rows, order) ==
  IF rows = <<>> THEN <<>>
  ELSE LET label_cell == Head(rows)[1]
           value_cell == Head(rows)[2]
       IN IF label_cell = None \/ value_cell = None
          THEN ExtractRows(Tail(rows), order)
          ELSE LET label_str == Strip(label_cell)
                   value_str == Strip(value_cell)
               IN << [name |-> _auto_name_from_label(label_str),
                      label |-> label_str,
                      value |-> value_str,
                      data_type |-> GuessDataType(value_str),
                      order |-> order] >>
                  \o ExtractRows(Tail(rows), order + 1)

extract_fields_from_upload(file) == ExtractRows(FirstSheet(file).rows, 1)

FieldSpecsKeepingEmptyTokens(records) ==
  [idx \in 1..Len(records) |->
     LET record == records[idx]
         value_str == IF record.value = None THEN <<>> ELSE record.value
     IN [name |-> IF record.key_path # <<>> THEN JoinSeq(record.key_path, <<".">>)
                  ELSE DefaultName(idx),
         label |-> JoinSeq(record.label_path, <<" ", "/", " ">>),
         value |-> value_str,
         data_type |-> RecordDataType(value_str),
         order |-> idx]]

_records_to_field_specs(records) ==
  [idx \in 1..Len(records) |->
     LET record == records[idx]
         key_tokens == Truthy(record.key_path)
         label_tokens == Truthy(record.label_path)
         raw_value == record.value
         value_str == IF raw_value = None THEN <<>> ELSE raw_value
     IN [name |-> IF key_tokens # <<>> THEN JoinSeq(key_tokens, <<".">>)
                  ELSE DefaultName(idx),
         label |-> IF label_tokens # <<>> THEN JoinSeq(label_tokens, <<" ", "/", " ">>)
                   ELSE DefaultLabel(idx),
         value |-> value_str,
         data_type |-> RecordDataType(value_str),
         order |-> idx]]

\* The SubmissionField rows made from specs (the `or` defaults of the
\* constructor calls); a submission's rows are kept in ("order", "id") order.
FieldRows(specs) ==
  [idx \in 1..Len(specs) |->
     LET spec == specs[idx]
     IN [name |-> IF spec.name # <<>> THEN spec.name ELSE DefaultName(idx),
         label |-> IF spec.label # <<>> THEN spec.label ELSE DefaultLabel(idx),
         value |-> spec.value,
         data_type |-> spec.data_type,
         order |-> IF spec.order # 0 THEN spec.order ELSE idx]]

\* The submission's fields after _rebuild_submission_fields(submission, records).
_rebuild_submission_fields(records) == FieldRows(_records_to_field_specs(records))

_key_path_to_str(path) == IF path = <<>> THEN <<>> ELSE JoinSeq(path, <<"|">>)

\* overrides.get(key, default)
DictGet(d, key, default) == IF key \in DOMAIN d THEN d[key] ELSE default

ApplyOverridesIgnoringKeys(records, overrides) ==
  [i \in 1..Len(records) |->
     [key_path |-> records[i].key_path,
      label_path |-> records[i].label_path,
      value |-> IF DOMAIN overrides # {}
                THEN overrides[CHOOSE k \in DOMAIN overrides : TRUE]
                ELSE records[i].value]]

_apply_overrides_to_records(records, overrides) ==
  IF DOMAIN overrides = {} THEN records
  ELSE [i \in 1..Len(records) |->
          LET key == _key_path_to_str(records[i].key_path)
          IN [key_path |-> records[i].key_path,
              label_path |-> records[i].label_path,
              value |-> DictGet(overrides, key, records[i].value)]]

(***************************************************************************)
(* The database.                                                           *)
(*   submissions : Submission rows, with the three normalized_* JSON       *)
(*                 columns the views read and write                        *)
(*   fields      : per submission, its SubmissionField rows in             *)
(*                 ("order", "id") order                                   *)
(*   uploads     : Upload rows                                             *)
(*   events      : SubmissionEvent rows, in creation order                 *)
(*   signups     : the User rows that signup created, in creation order    *)
(*   last        : the last request and its response                       *)
(***************************************************************************)

Statuses == {"DRAFT", "IN_REVIEW", "REVISION_REQUIRED", "FINALIZED"}

\* NULL in the from_status / to_status columns.
Null == "NULL"

DB == [submissions |-> submissions, fields |-> fields,
       uploads |-> uploads, events |-> events]

\* A response and the tables as the request leaves them.
Response(resp, db) == [resp |-> resp, db |-> db]

Event(sid, actor, event_type, message, from_status, to_status) ==
  [submission |-> sid, actor |-> actor, event_type |-> event_type,
   field_name |-> "general", message |-> message,
   from_status |-> from_status, to_status |-> to_status]

\* Upload.objects.create(submission=..., file=f, original_name=f.name)
NewUpload(sid, f) == [submission |-> sid, file |-> f, original_name |-> f]

\* The files of the two slots that were sent, in slot order.
SentFiles(file_1, file_2) ==
  (IF file_1 # Absent THEN <<file_1>> ELSE <<>>)
    \o (IF file_2 # Absent THEN <<file_2>> ELSE <<>>)

(***************************************************************************)
(* create_fields_from_upload(submission, upload): `sub` is the Submission  *)
(* row, `outcome` what parse_with_ntpd does for the upload's file.  The    *)
(* result is the row and the submission's fields afterwards, and whether   *)
(* the call raised (the simple extractor runs in the finally block, where  *)
(* nothing catches what openpyxl raises).                                  *)
(***************************************************************************)
CreateFieldsIgnoringOverrides(sub, file, outcome) ==
  LET parsed_ok == outcome.kind = "ok"
      normalized_records == IF parsed_ok THEN outcome.records ELSE <<>>
  IN [raised |-> FALSE,
      sub |-> [sub EXCEPT !.normalized_payload = outcome.payload,
                          !.normalized_records = normalized_records],
      fields |-> _rebuild_submission_fields(normalized_records)]

create_fields_from_upload(sub, file, outcome) ==
  LET parsed_ok == outcome.kind = "ok"
      normalized_records == IF parsed_ok THEN outcome.records ELSE <<>>
      use_fallback == normalized_records = <<>>
      normalized_payload ==
        IF use_fallback \/ ~parsed_ok THEN EmptyPayload ELSE outcome.payload
  IN IF use_fallback /\ ~FirstSheet(file).readable
     THEN [raised |-> TRUE, sub |-> sub, fields |-> <<>>]
     ELSE LET saved == [sub EXCEPT !.normalized_payload = normalized_payload,
                                   !.normalized_records = normalized_records]
          IN IF normalized_records # <<>>
             THEN LET overrides == sub.normalized_overrides
                      effective_records ==
                        IF DOMAIN overrides # {}
                        THEN _apply_overrides_to_records(normalized_records, overrides)
                        ELSE normalized_records
                  IN [raised |-> FALSE, sub |-> saved,
                      fields |-> _rebuild_submission_fields(effective_records)]
             ELSE [raised |-> FALSE, sub |-> saved,
                   fields |-> FieldRows(extract_fields_from_upload(file))]

(***************************************************************************)
(* The views.  Django's forms are outside the repository: what a form's    *)
(* is_valid() answers and the cleaned_data it delivers are inputs of the   *)
(* request (`valid`, `form`, `message`, `values`, `rows`, the files).       *)
(*                                                                         *)
(* new_submission.  Each ORM call commits on its own (no transaction is    *)
(* opened by the view), so what was created stays when the parse raises.   *)
(***************************************************************************)
InitialMessage == "initial save"

NewSubmissionStatusSubmitted == "IN_REVIEW"

\* Line 738: the status a new submission is saved with.
NewSubmissionStatus == "DRAFT"

NonBorrowersMayCreate(user) == TRUE

\* Line 729: who may create a submission.
MayCreate(user) == is_borrower(user)

new_submission(db, user, method, valid, form, file_1, file_2, outcome) ==
  IF ~MayCreate(user) THEN Response("forbidden", db)
  ELSE IF method = "POST" /\ valid
  THEN LET sid == Len(db.submissions) + 1
           submission == [borrower |-> user,
                          status |-> NewSubmissionStatus,
                          title |-> form.title,
                          description |-> form.description,
                          normalized_payload |-> EmptyPayload,
                          normalized_records |-> <<>>,
                          normalized_overrides |-> EmptyDict]
           event == Event(sid, user, "STATUS_CHANGE", InitialMessage, Null, submission.status)
           files == SentFiles(file_1, file_2)
           new_uploads == [i \in 1..Len(files) |-> NewUpload(sid, files[i])]
           created == [submissions |-> Append(db.submissions, submission),
                       fields |-> Append(db.fields, <<>>),
                       uploads |-> db.uploads \o new_uploads,
                       events |-> Append(db.events, event)]
       IN IF files = <<>> THEN Response("redirect", created)
          ELSE LET r == create_fields_from_upload(submission, files[1], outcome)
                   parsed == [created EXCEPT !.submissions[sid] = r.sub,
                                            !.fields[sid] = r.fields]
               IN Response(IF r.raised THEN "error" ELSE "redirect", parsed)
  ELSE Response("render", db)

(***************************************************************************)
(* edit_submission.  `values` is dynamic_form.cleaned_data in field order: *)
(* None or the str() text of a Decimal for a NUMBER field, a string for a  *)
(* TEXT field.                                                             *)
(***************************************************************************)
BorrowerEditMessage == "borrower edited"

StatusAfterEditWithoutDraft(old_status, action) ==
  IF action = "submit" THEN "IN_REVIEW" ELSE old_status

\* Lines 817-821: the status the action of the POST asks for.
StatusAfterEdit(old_status, action) ==
  IF action = "submit" THEN "IN_REVIEW"
  ELSE IF action = "draft" THEN "DRAFT"
  ELSE old_status

EveryEditLogged(old_status, new_status) == TRUE

NoEditLogged(old_status, new_status) == FALSE

\* Line 826: `old_status != submission.status`
StatusChanged(old_status, new_status) == old_status # new_status

OwnerCheckSkipped(submission, user) == FALSE

\* `submission.borrower != user`
NotOwner(submission, user) == submission.borrower # user

FinalizedCheckSkipped(submission) == FALSE

\* `submission.status == Submission.Status.FINALIZED`
IsFinalized(submission) == submission.status = "FINALIZED"

edit_submission(db, user, sid, method, valid, form, action, values, file_1, file_2) ==
  IF sid \notin 1..Len(db.submissions) THEN Response("notfound", db)
  ELSE LET submission == db.submissions[sid]
           fields_qs == db.fields[sid]
       IN IF NotOwner(submission, user) THEN Response("forbidden", db)
          ELSE IF IsFinalized(submission) /\ method = "POST"
          THEN Response("forbidden", db)
          ELSE IF method = "POST" /\ valid
          THEN LET old_status == submission.status
                   new_status == StatusAfterEdit(old_status, action)
                   saved == [submission EXCEPT !.title = form.title,
                                               !.description = form.description,
                                               !.status = new_status]
                   new_events ==
                     IF StatusChanged(old_status, new_status)
                     THEN << Event(sid, user, "STATUS_CHANGE", BorrowerEditMessage,
                                   old_status, new_status) >>
                     ELSE <<>>
                   new_fields ==
                     [i \in 1..Len(fields_qs) |->
                        [fields_qs[i] EXCEPT
                           !.value = IF values[i] = None THEN <<>> ELSE values[i]]]
                   files == SentFiles(file_1, file_2)
                   new_uploads == [i \in 1..Len(files) |-> NewUpload(sid, files[i])]
               IN Response("redirect",
                           [submissions |-> [db.submissions EXCEPT ![sid] = saved],
                            fields |-> [db.fields EXCEPT ![sid] = new_fields],
                            uploads |-> db.uploads \o new_uploads,
                            events |-> db.events \o new_events])
          ELSE Response("render", db)

(***************************************************************************)
(* replace_upload_inline.  `file` is request.FILES.get("file").            *)
(***************************************************************************)
ReplaceMessage(name) == "replaced " \o name

ReplaceUploadDroppingFields(db, user, upload_id, method, file) ==
  IF upload_id \notin 1..Len(db.uploads) THEN Response("notfound", db)
  ELSE LET upload == db.uploads[upload_id]
           submission == db.submissions[upload.submission]
       IN IF NotOwner(submission, user) THEN Response("forbidden", db)
          ELSE IF IsFinalized(submission) THEN Response("forbidden", db)
          ELSE IF method = "POST" /\ file # Absent
          THEN LET replaced == [upload EXCEPT !.file = file, !.original_name = file]
               IN Response("redirect",
                           [db EXCEPT
                              !.uploads[upload_id] = replaced,
                              !.fields[upload.submission] = <<>>,
                              !.events = Append(@, Event(upload.submission, user, "COMMENT",
                                                         ReplaceMessage(replaced.original_name),
                                                         Null, Null))])
          ELSE Response("redirect", db)

replace_upload_inline(db, user, upload_id, method, file) ==
  IF upload_id \notin 1..Len(db.uploads) THEN Response("notfound", db)
  ELSE LET upload == db.uploads[upload_id]
           submission == db.submissions[upload.submission]
       IN IF NotOwner(submission, user) THEN Response("forbidden", db)
          ELSE IF IsFinalized(submission) THEN Response("forbidden", db)
          ELSE IF method = "POST" /\ file # Absent
          THEN LET replaced == [upload EXCEPT !.file = file, !.original_name = file]
               IN Response("redirect",
                           [db EXCEPT
                              !.uploads[upload_id] = replaced,
                              !.events = Append(@, Event(upload.submission, user, "COMMENT",
                                                         ReplaceMessage(replaced.original_name),
                                                         Null, Null))])
          ELSE Response("redirect", db)

(***************************************************************************)
(* submission_review.  `valid` and `message` are SubmissionEventForm's     *)
(* is_valid() and cleaned message.                                         *)
(***************************************************************************)
FinalizeMessage == "lender finalized"

ReviewOpenToAll(user) == TRUE

\* Line 916: who may use the review view.
MayReview(user) == _is_lender_like(user)

RevisionKeepsStatus(old_status) == old_status

\* Line 936: the status a revision request sets.
StatusAfterRevisionRequest(old_status) == "REVISION_REQUIRED"

FinalizeKeepsStatus(old_status) == old_status

\* Line 951: the status finalize sets.
StatusAfterFinalize(old_status) == "FINALIZED"

CommentAsRequest(action) == "REQUEST"

\* Lines 939, 943: the event type of a comment / a revision request.
ReviewEventType(action) == IF action = "request_revision" THEN "REQUEST" ELSE "COMMENT"

submission_review(db, user, sid, method, action, valid, message) ==
  IF ~MayReview(user) THEN Response("forbidden", db)
  ELSE IF sid \notin 1..Len(db.submissions) THEN Response("notfound", db)
  ELSE LET submission == db.submissions[sid]
       IN IF method = "POST" /\ action \in {"comment", "request_revision"} /\ valid
          THEN IF action = "request_revision"
               THEN LET old_status == submission.status
                        new_status == StatusAfterRevisionRequest(old_status)
                    IN Response("redirect",
                                [db EXCEPT
                                   !.submissions[sid].status = new_status,
                                   !.events = Append(@, Event(sid, user, ReviewEventType(action),
                                                              message, old_status, new_status))])
               ELSE Response("redirect",
                             [db EXCEPT
                                !.events = Append(@, Event(sid, user, ReviewEventType(action),
                                                           message, Null, Null))])
          ELSE IF method = "POST" /\ action = "finalize"
          THEN LET old_status == submission.status
                   new_status == StatusAfterFinalize(old_status)
               IN Response("redirect",
                           [db EXCEPT
                              !.submissions[sid].status = new_status,
                              !.events = Append(@, Event(sid, user, "STATUS_CHANGE",
                                                         FinalizeMessage, old_status, new_status))])
          ELSE Response("render", db)

(***************************************************************************)
(* edit_submission_data.  `rows` is the formset's cleaned_data: one        *)
(* (key, value) per submitted form, in form order.                         *)
(***************************************************************************)
RECURSIVE BaseMap(_)
\* base_map of lines 1049-1057: key string -> str(value or "")
BaseMap(records) ==
  IF records = <<>> THEN EmptyDict
  ELSE LET rec == records[Len(records)]
           key == _key_path_to_str(rec.key_path)
           base_value == IF rec.value = None THEN <<>> ELSE rec.value
       IN (key :> base_value) @@ BaseMap(SubSeq(records, 1, Len(records) - 1))

RECURSIVE NewOverridesOfEveryRow(_, _)
NewOverridesOfEveryRow(rows, base_map) ==
  IF rows = <<>> THEN EmptyDict
  ELSE LET row == rows[Len(rows)]
           value == IF row.value = None THEN <<>> ELSE row.value
       IN (row.key :> value)
            @@ NewOverridesOfEveryRow(SubSeq(rows, 1, Len(rows) - 1), base_map)

RECURSIVE NewOverrides(_, _)
\* new_overrides of lines 1072-1078, the last row of `rows` applied last.
NewOverrides(rows, base_map) ==
  IF rows = <<>> THEN EmptyDict
  ELSE LET row == rows[Len(rows)]
           value == IF row.value = None THEN <<>> ELSE row.value
           base_value == DictGet(base_map, row.key, <<>>)
           earlier == NewOverrides(SubSeq(rows, 1, Len(rows) - 1), base_map)
       IN IF value # base_value THEN (row.key :> value) @@ earlier ELSE earlier

edit_submission_data(db, user, sid, method, valid, rows) ==
  IF sid \notin 1..Len(db.submissions) THEN Response("notfound", db)
  ELSE LET submission == db.submissions[sid]
       IN IF NotOwner(submission, user) THEN Response("forbidden", db)
          ELSE IF IsFinalized(submission) THEN Response("forbidden", db)
          ELSE IF submission.normalized_records = <<>> THEN Response("forbidden", db)
          ELSE IF method = "POST" /\ valid
          THEN LET base_records == submission.normalized_records
                   new_overrides == NewOverrides(rows, BaseMap(base_records))
                   effective_records ==
                     IF DOMAIN new_overrides # {}
                     THEN _apply_overrides_to_records(base_records, new_overrides)
                     ELSE base_records
               IN Response("redirect",
                           [db EXCEPT
                              !.submissions[sid].normalized_overrides = new_overrides,
                              !.fields[sid] = _rebuild_submission_fields(effective_records)])
          ELSE Response("render", db)

(***************************************************************************)
(* Requests.  A GET carries no form: no action, validity or message.       *)
(***************************************************************************)
Methods == {"GET", "POST"}

\* SubmissionForm.cleaned_data
Forms == {[title |-> "t1", description |-> ""], [title |-> "t2", description |-> "d"]}

EditActions == {"submit", "draft", "other", Absent}

ReviewActions == {"comment", "request_revision", "finalize", "other"}

\* SubmissionEventForm.cleaned_data["message"]
Messages == {"", "m"}

\* dynamic_form.cleaned_data for a field, by the choice `c`: a DecimalField
\* gives None or a Decimal (its str() text), a CharField a string.
CleanedValue(data_type, c) ==
  IF data_type = "NUMBER" THEN (IF c = "blank" THEN None ELSE <<"2">>)
  ELSE (IF c = "blank" THEN <<>> ELSE <<"x">>)

ValueChoices == {"blank", "filled"}

\* `last`: the view of the last request, who sent it and how it was answered.
NoRequest == [op |-> "none", user |-> 0, resp |-> "none"]

Request(op, user, resp) == [op |-> op, user |-> user, resp |-> resp]

WithinBounds(db) ==
  /\ Len(db.submissions) <= MaxSubmissions
  /\ Len(db.uploads) <= MaxUploads
  /\ Len(db.events) <= MaxEvents

\* The tables after a request.
Commit(db) ==
  /\ WithinBounds(db)
  /\ submissions' = db.submissions
  /\ fields' = db.fields
  /\ uploads' = db.uploads
  /\ events' = db.events
  /\ UNCHANGED <<signups, workbook, inflight>>

Init ==
  /\ submissions = <<>>
  /\ fields = <<>>
  /\ uploads = <<>>
  /\ events = <<>>
  /\ signups = <<>>
  /\ workbook = <<>>
  /\ inflight = NoneInFlight
  /\ last = NoRequest

NewSubmission(users, forms, files_1, files_2) ==
  \E user \in users, method \in Methods :
    \E valid \in (IF method = "POST" THEN BOOLEAN ELSE {FALSE}) :
      \E form \in (IF valid THEN forms ELSE {CHOOSE f \in forms : TRUE}),
         file_1 \in (IF valid THEN files_1 ELSE {Absent}),
         file_2 \in (IF valid THEN files_2 ELSE {Absent}) :
        \E outcome \in ParseOutcomes(file_1) :
          LET r == new_submission(DB, user, method, valid, form, file_1, file_2, outcome)
          IN /\ Commit(r.db)
             /\ last' = Request("new_submission", user, r.resp)

EditSubmission(users, forms, choices, files_1) ==
  \E user \in users, sid \in 1..MaxSubmissions, method \in Methods :
    \E valid \in (IF method = "POST" THEN BOOLEAN ELSE {FALSE}),
       action \in (IF method = "POST" THEN EditActions ELSE {Absent}) :
      \E form \in (IF valid THEN forms ELSE {CHOOSE f \in forms : TRUE}),
         c \in (IF valid THEN choices ELSE {"blank"}),
         file_1 \in (IF valid THEN files_1 ELSE {Absent}) :
        LET fields_qs == IF sid \in 1..Len(fields) THEN fields[sid] ELSE <<>>
            values == [i \in 1..Len(fields_qs) |-> CleanedValue(fields_qs[i].data_type, c)]
            r == edit_submission(DB, user, sid, method, valid, form, action, values,
                                 file_1, Absent)
        IN /\ Commit(r.db)
           /\ last' = Request("edit_submission", user, r.resp)

ReplaceUploadInline(users, files) ==
  \E user \in users, upload_id \in 1..MaxUploads, method \in Methods :
    \E file \in (IF method = "POST" THEN files ELSE {Absent}) :
      LET r == replace_upload_inline(DB, user, upload_id, method, file)
      IN /\ Commit(r.db)
         /\ last' = Request("replace_upload_inline", user, r.resp)

SubmissionReview(users, messages) ==
  \E user \in users, sid \in 1..MaxSubmissions, method \in Methods :
    \E action \in (IF method = "POST" THEN ReviewActions ELSE {Absent}) :
      \E valid \in (IF action \in {"comment", "request_revision"} THEN BOOLEAN ELSE {FALSE}) :
        \E message \in (IF valid THEN messages ELSE {""}) :
          LET r == submission_review(DB, user, sid, method, action, valid, message)
          IN /\ Commit(r.db)
             /\ last' = Request("submission_review", user, r.resp)

EditSubmissionData(users, rowsets) ==
  \E user \in users, sid \in 1..MaxSubmissions, method \in Methods :
    \E valid \in (IF method = "POST" THEN BOOLEAN ELSE {FALSE}) :
      \E rows \in (IF valid THEN rowsets ELSE {<<>>}) :
        LET r == edit_submission_data(DB, user, sid, method, valid, rows)
        IN /\ Commit(r.db)
           /\ last' = Request("edit_submission_data", user, r.resp)

(***************************************************************************)
(* Spec: the review workflow.  A borrower and a lender send every kind of   *)
(* request, a staff administrator reviews as well; the data a request      *)
(* carries is kept to one upload and one edit.                             *)
(***************************************************************************)
Actors == {1, 2}

OneEdit == { << [key |-> <<"s", "|", "a">>, value |-> <<"2">>],
                [key |-> <<"s", "|", "b">>, value |-> <<>>] >> }

Next ==
  \/ NewSubmission(Actors, {[title |-> "t1", description |-> ""]}, {"ntpd.xlsx"}, {Absent})
  \/ EditSubmission(Actors, {[title |-> "t2", description |-> "d"]}, {"filled"}, {Absent})
  \/ ReplaceUploadInline(Actors, {Absent, "plain.xlsx"})
  \/ SubmissionReview(Actors \cup {3}, {"m"})
  \/ EditSubmissionData(Actors, OneEdit)

Spec == Init /\ [][Next]_vars

(***************************************************************************)
(* Requests the properties range over: in every reachable state of the     *)
(* database, every request of these sets is put to the view.               *)
(***************************************************************************)
FileInputs == Files \cup {Absent}

\* What a valid new/edit POST carries besides its action.
Payloads ==
  { [form |-> [title |-> "t1", description |-> ""], choice |-> "blank",
     file_1 |-> Absent, file_2 |-> Absent],
    [form |-> [title |-> "t2", description |-> "d"], choice |-> "filled",
     file_1 |-> "plain.xlsx", file_2 |-> Absent],
    [form |-> [title |-> "t2", description |-> ""], choice |-> "filled",
     file_1 |-> "ntpd.xlsx", file_2 |-> "doc.pdf"],
    [form |-> [title |-> "t1", description |-> "d"], choice |-> "blank",
     file_1 |-> "doc.pdf", file_2 |-> "plain.xlsx"] }

\* A request that is not a valid POST carries no cleaned data.
NoPayload ==
  [form |-> [title |-> "t1", description |-> ""], choice |-> "blank",
   file_1 |-> Absent, file_2 |-> Absent]

\* Requests to new_submission: a GET, a POST with an invalid form, valid POSTs.
NewRequests ==
  {[method |-> "GET", valid |-> FALSE, p |-> NoPayload],
   [method |-> "POST", valid |-> FALSE, p |-> NoPayload]}
    \cup {[method |-> "POST", valid |-> TRUE, p |-> p] : p \in Payloads}

\* POSTs to edit_submission, and all requests to it.
EditPosts ==
  {[method |-> "POST", valid |-> FALSE, action |-> a, p |-> NoPayload] : a \in EditActions}
    \cup {[method |-> "POST", valid |-> TRUE, action |-> a, p |-> p] :
            a \in EditActions, p \in Payloads}

EditRequests ==
  {[method |-> "GET", valid |-> FALSE, action |-> Absent, p |-> NoPayload]} \cup EditPosts

\* dynamic_form.cleaned_data for the fields of submission `sid`.
ValuesFor(sid, c) ==
  [i \in 1..Len(fields[sid]) |-> CleanedValue(fields[sid][i].data_type, c)]

\* edit_submission on the present database.
EditWith(user, sid, method, valid, action, p) ==
  edit_submission(DB, user, sid, method, valid, p.form, action,
                  ValuesFor(sid, p.choice), p.file_1, p.file_2)

\* Requests to replace_upload_inline: a GET, POSTs with and without a file.
ReplaceRequests ==
  {[method |-> "GET", file |-> Absent]}
    \cup {[method |-> "POST", file |-> f] : f \in FileInputs}

\* Formset rows: none, the two record keys edited, a key of no record.
SomeRows ==
  OneEdit \cup { <<>>, << [key |-> <<"z">>, value |-> <<"1">>] >> }

\* Requests to edit_submission_data: a GET, a POST with an invalid formset,
\* valid POSTs.
DataRequests ==
  {[method |-> "GET", valid |-> FALSE, rows |-> <<>>],
   [method |-> "POST", valid |-> FALSE, rows |-> <<>>]}
    \cup {[method |-> "POST", valid |-> TRUE, rows |-> rows] : rows \in SomeRows}

\* Requests to submission_review: a GET, and POSTs of every action, the event
\* form invalid or valid with a message.
ReviewRequests ==
  {[method |-> "GET", action |-> Absent, valid |-> FALSE, message |-> ""]}
    \cup {[method |-> "POST", action |-> a, valid |-> FALSE, message |-> ""] :
            a \in ReviewActions \cup {Absent}}
    \cup {[method |-> "POST", action |-> a, valid |-> TRUE, message |-> m] :
            a \in ReviewActions \cup {Absent}, m \in Messages}

\* The claims' "lender-like": role LENDER, or is_staff, or is_superuser.
LenderLike(u) ==
  User(u).role = "LENDER" \/ User(u).is_staff \/ User(u).is_superuser

\* The events of submission `sid` in an event table.
EventsOf(evs, sid) == SelectSeq(evs, LAMBDA e : e.submission = sid)

(***************************************************************************)
(* C1.  A finalized submission can no longer be modified by the borrower:  *)
(* while a submission is FINALIZED, its borrower's POST to edit_submission,*)
(* any request to replace_upload_inline for one of its uploads and any     *)
(* request to edit_submission_data are answered "forbidden" and leave      *)
(* every table as it was.                                                  *)
(***************************************************************************)
C1_FinalizedIsReadOnly ==
  \A sid \in 1..Len(submissions) :
    submissions[sid].status = "FINALIZED" =>
      LET owner == submissions[sid].borrower
      IN /\ \A q \in EditPosts :
              EditWith(owner, sid, q.method, q.valid, q.action, q.p)
                = Response("forbidden", DB)
         /\ \A upload_id \in 1..Len(uploads), q \in ReplaceRequests :
              uploads[upload_id].submission = sid =>
                replace_upload_inline(DB, owner, upload_id, q.method, q.file)
                  = Response("forbidden", DB)
         /\ \A q \in DataRequests :
              edit_submission_data(DB, owner, sid, q.method, q.valid, q.rows)
                = Response("forbidden", DB)

\* The borrower of a finalized submission, with an upload and parsed
\* records, has just been refused.
C1_Witness ==
  \E sid \in 1..Len(submissions) :
    /\ submissions[sid].status = "FINALIZED"
    /\ submissions[sid].normalized_records # <<>>
    /\ \E u \in 1..Len(uploads) : uploads[u].submission = sid
    /\ last = Request("edit_submission", submissions[sid].borrower, "forbidden")

(***************************************************************************)
(* C2.  A valid edit_submission POST by the owning borrower on a           *)
(* submission that is not FINALIZED stores IN_REVIEW for action "submit",  *)
(* DRAFT for action "draft" and the status it had for any other or missing *)
(* action, whatever that status was.                                       *)
(***************************************************************************)
C2_EditStatusFollowsAction ==
  \A sid \in 1..Len(submissions) :
    submissions[sid].status # "FINALIZED" =>
      \A action \in EditActions, p \in Payloads :
        LET r == EditWith(submissions[sid].borrower, sid, "POST", TRUE, action, p)
        IN /\ r.resp = "redirect"
           /\ r.db.submissions[sid].status =
                CASE action = "submit" -> "IN_REVIEW"
                  [] action = "draft" -> "DRAFT"
                  [] OTHER -> submissions[sid].status

\* The borrower has just submitted a draft: IN_REVIEW is stored and logged.
C2_Witness ==
  /\ last.op = "edit_submission" /\ last.resp = "redirect"
  /\ \E i \in 1..Len(events) :
       /\ events[i].event_type = "STATUS_CHANGE"
       /\ events[i].actor = submissions[events[i].submission].borrower
       /\ events[i].from_status = "DRAFT"
       /\ events[i].to_status = "IN_REVIEW"
       /\ submissions[events[i].submission].status = "IN_REVIEW"

(***************************************************************************)
(* C3.  Every submission new_submission creates is stored with status      *)
(* DRAFT and the requesting user as borrower, and has exactly one event: a *)
(* STATUS_CHANGE from null to DRAFT.                                       *)
(***************************************************************************)
C3_CreatedAsDraft ==
  \A user \in UserIds, q \in NewRequests :
    \A outcome \in ParseOutcomes(q.p.file_1) :
      LET r == new_submission(DB, user, q.method, q.valid, q.p.form, q.p.file_1,
                              q.p.file_2, outcome)
          sid == Len(submissions) + 1
      IN /\ Len(r.db.submissions) \in {Len(submissions), sid}
         /\ (q.method = "POST" /\ q.valid /\ User(user).role = "BORROWER")
              => Len(r.db.submissions) = sid
         /\ Len(r.db.submissions) = sid =>
              /\ r.db.submissions[sid].status = "DRAFT"
              /\ r.db.submissions[sid].borrower = user
              /\ Len(EventsOf(r.db.events, sid)) = 1
              /\ EventsOf(r.db.events, sid)[1].event_type = "STATUS_CHANGE"
              /\ EventsOf(r.db.events, sid)[1].from_status = Null
              /\ EventsOf(r.db.events, sid)[1].to_status = "DRAFT"

\* A submission has just been created.
C3_Witness ==
  /\ last.op = "new_submission" /\ last.resp = "redirect"
  /\ Len(submissions) >= 1
  /\ submissions[Len(submissions)].borrower = last.user
  /\ events[Len(events)].submission = Len(submissions)

(***************************************************************************)
(* C4.  A lender-like user's POST of action "request_revision" to          *)
(* submission_review with a valid event form sets the submission's status  *)
(* to REVISION_REQUIRED and appends exactly one event: type REQUEST, from  *)
(* the status before, to REVISION_REQUIRED, actor the lender, message the  *)
(* submitted message.                                                      *)
(***************************************************************************)
C4_RevisionRequestIsLogged ==
  \A sid \in 1..Len(submissions), user \in UserIds, message \in Messages :
    LenderLike(user) =>
      LET r == submission_review(DB, user, sid, "POST", "request_revision", TRUE, message)
      IN /\ r.db.submissions[sid].status = "REVISION_REQUIRED"
         /\ r.db.events =
              Append(events,
                     [submission |-> sid, actor |-> user, event_type |-> "REQUEST",
                      field_name |-> "general", message |-> message,
                      from_status |-> submissions[sid].status,
                      to_status |-> "REVISION_REQUIRED"])

\* A lender has just sent a submission back.
C4_Witness ==
  /\ last.op = "submission_review" /\ last.resp = "redirect"
  /\ LenderLike(last.user)
  /\ events[Len(events)].event_type = "REQUEST"
  /\ events[Len(events)].actor = last.user
  /\ submissions[events[Len(events)].submission].status = "REVISION_REQUIRED"

(***************************************************************************)
(* C5.  A lender-like user's POST of action "finalize" to submission_review*)
(* sets the submission's status to FINALIZED and appends exactly one       *)
(* event: a STATUS_CHANGE from the status before to FINALIZED.             *)
(***************************************************************************)
C5_FinalizeIsLogged ==
  \A sid \in 1..Len(submissions), user \in UserIds, valid \in BOOLEAN,
     message \in Messages :
    LenderLike(user) =>
      LET r == submission_review(DB, user, sid, "POST", "finalize", valid, message)
          n == Len(events)
      IN /\ r.db.submissions[sid].status = "FINALIZED"
         /\ Len(r.db.events) = n + 1
         /\ SubSeq(r.db.events, 1, n) = events
         /\ r.db.events[n + 1].submission = sid
         /\ r.db.events[n + 1].event_type = "STATUS_CHANGE"
         /\ r.db.events[n + 1].from_status = submissions[sid].status
         /\ r.db.events[n + 1].to_status = "FINALIZED"

\* A lender has just finalized a submission.
C5_Witness ==
  /\ last.op = "submission_review" /\ last.resp = "redirect"
  /\ LenderLike(last.user)
  /\ events[Len(events)].event_type = "STATUS_CHANGE"
  /\ events[Len(events)].to_status = "FINALIZED"
  /\ events[Len(events)].actor = last.user
  /\ submissions[events[Len(events)].submission].status = "FINALIZED"

(***************************************************************************)
(* C6.  The database after a lender-like user's POST of a comment: the     *)
(* tables as they were, with one COMMENT event without statuses appended.  *)
(***************************************************************************)
AfterComment(r, sid, user) ==
  LET n == Len(events)
  IN /\ r.db.submissions = submissions
     /\ r.db.fields = fields
     /\ r.db.uploads = uploads
     /\ Len(r.db.events) = n + 1
     /\ SubSeq(r.db.events, 1, n) = events
     /\ r.db.events[n + 1].submission = sid
     /\ r.db.events[n + 1].actor = user
     /\ r.db.events[n + 1].event_type = "COMMENT"
     /\ r.db.events[n + 1].from_status = Null
     /\ r.db.events[n + 1].to_status = Null

\* C6 as claimed: whenever a lender-like user posts action "comment" to
\* submission_review, exactly one COMMENT event with null from_status and
\* to_status is appended and status, fields, uploads and normalized data stay;
\* a POST with any other action than comment, request_revision or finalize
\* appends no event and changes nothing.
C6_AsClaimed ==
  \A sid \in 1..Len(submissions), user \in UserIds, valid \in BOOLEAN,
     message \in Messages :
    LenderLike(user) =>
      /\ AfterComment(submission_review(DB, user, sid, "POST", "comment", valid, message),
                      sid, user)
      /\ \A action \in {"other", Absent} :
           submission_review(DB, user, sid, "POST", action, valid, message).db = DB

\* C6 amended: a lender-like user's POST of action "comment" with a valid event
\* form appends exactly one COMMENT event with null from_status and to_status
\* and leaves status, fields, uploads and normalized data; with an invalid event
\* form, or with any other action than comment, request_revision or finalize,
\* the POST appends no event and changes nothing.
C6_CommentOnlyAppends ==
  \A sid \in 1..Len(submissions), user \in UserIds, message \in Messages :
    LenderLike(user) =>
      /\ AfterComment(submission_review(DB, user, sid, "POST", "comment", TRUE, message),
                      sid, user)
      /\ submission_review(DB, user, sid, "POST", "comment", FALSE, message).db = DB
      /\ \A action \in {"other", Absent}, valid \in BOOLEAN :
           submission_review(DB, user, sid, "POST", action, valid, message).db = DB

\* A lender has just commented on a submission.
C6_Witness ==
  /\ last.op = "submission_review" /\ last.resp = "redirect"
  /\ LenderLike(last.user)
  /\ events[Len(events)].event_type = "COMMENT"
  /\ events[Len(events)].actor = last.user
  /\ events[Len(events)].from_status = Null

(***************************************************************************)
(* C7.  Only borrowers create submissions: new_submission answers a user   *)
(* whose role is not BORROWER "forbidden" and creates nothing.             *)
(***************************************************************************)
C7_OnlyBorrowersCreate ==
  \A user \in UserIds, q \in NewRequests :
    \A outcome \in ParseOutcomes(q.p.file_1) :
      User(user).role # "BORROWER" =>
        new_submission(DB, user, q.method, q.valid, q.p.form, q.p.file_1, q.p.file_2,
                       outcome)
          = Response("forbidden", DB)

\* A user who is no borrower has just been refused.
C7_Witness ==
  /\ last.op = "new_submission" /\ last.resp = "forbidden"
  /\ last.user \in UserIds /\ User(last.user).role # "BORROWER"

(***************************************************************************)
(* C8.  A borrower modifies only their own submissions: edit_submission,   *)
(* replace_upload_inline and edit_submission_data answer every user who is *)
(* not the submission's borrower "forbidden" and leave every table as it   *)
(* was.                                                                    *)
(***************************************************************************)
C8_OnlyTheOwnerModifies ==
  \A sid \in 1..Len(submissions), user \in UserIds :
    user # submissions[sid].borrower =>
      /\ \A q \in EditRequests :
           EditWith(user, sid, q.method, q.valid, q.action, q.p)
             = Response("forbidden", DB)
      /\ \A upload_id \in 1..Len(uploads), q \in ReplaceRequests :
           uploads[upload_id].submission = sid =>
             replace_upload_inline(DB, user, upload_id, q.method, q.file)
               = Response("forbidden", DB)
      /\ \A q \in DataRequests :
           edit_submission_data(DB, user, sid, q.method, q.valid, q.rows)
             = Response("forbidden", DB)

\* Someone else than the borrower of an open submission with an upload has
\* just been refused the replacement of the upload.
C8_Witness ==
  /\ last.op = "replace_upload_inline" /\ last.resp = "forbidden"
  /\ \A u \in 1..Len(uploads) :
       /\ submissions[uploads[u].submission].borrower # last.user
       /\ submissions[uploads[u].submission].status # "FINALIZED"
  /\ Len(uploads) >= 1

(***************************************************************************)
(* C9.  Only lender-like users use submission_review: every other user is  *)
(* answered "forbidden" and nothing changes; and no request of a user who  *)
(* is not lender-like, to any view, makes a status REVISION_REQUIRED or    *)
(* FINALIZED.                                                              *)
(***************************************************************************)
\* No submission of `db` has become REVISION_REQUIRED or FINALIZED.
NoneReviewed(db) ==
  \A sid \in 1..Len(db.submissions) :
    db.submissions[sid].status \in {"REVISION_REQUIRED", "FINALIZED"} =>
      /\ sid <= Len(submissions)
      /\ submissions[sid].status = db.submissions[sid].status

C9_OnlyLendersReview ==
  \A user \in UserIds :
    ~LenderLike(user) =>
      /\ \A sid \in 1..(Len(submissions) + 1), q \in ReviewRequests :
           submission_review(DB, user, sid, q.method, q.action, q.valid, q.message)
             = Response("forbidden", DB)
      /\ \A q \in NewRequests :
           \A outcome \in ParseOutcomes(q.p.file_1) :
             NoneReviewed(new_submission(DB, user, q.method, q.valid, q.p.form,
                                         q.p.file_1, q.p.file_2, outcome).db)
      /\ \A sid \in 1..Len(submissions) :
           /\ \A q \in EditRequests :
                NoneReviewed(EditWith(user, sid, q.method, q.valid, q.action, q.p).db)
           /\ \A q \in DataRequests :
                NoneReviewed(edit_submission_data(DB, user, sid, q.method, q.valid,
                                                  q.rows).db)
      /\ \A upload_id \in 1..Len(uploads), q \in ReplaceRequests :
           NoneReviewed(replace_upload_inline(DB, user, upload_id, q.method, q.file).db)

\* A borrower has just been refused the review of a submission that exists.
C9_Witness ==
  /\ last.op = "submission_review" /\ last.resp = "forbidden"
  /\ last.user \in UserIds /\ ~LenderLike(last.user)
  /\ Len(submissions) >= 1

(***************************************************************************)
(* SpecParse: the normalized data of a submission.  The owner creates a    *)
(* submission from an upload, edits its values, replaces the upload, and   *)
(* create_fields_from_upload is run again on a stored upload, as a caller  *)
(* of the function would run it on a submission that has overrides.        *)
(***************************************************************************)
CreateFieldsFromUpload ==
  \E upload_id \in 1..Len(uploads) :
    LET upload == uploads[upload_id]
        sid == upload.submission
    IN \E outcome \in ParseOutcomes(upload.file) :
         LET r == create_fields_from_upload(submissions[sid], upload.file, outcome)
         IN /\ Commit([DB EXCEPT !.submissions[sid] = r.sub,
                                 !.fields[sid] = r.fields])
            /\ last' = Request("create_fields_from_upload", submissions[sid].borrower,
                               IF r.raised THEN "error" ELSE "ok")

\* Formset rows of the data editor: s.a edited; s.a as parsed and s.c edited;
\* s.a and s.b blanked; a key of no record edited.
DataEdits ==
  { << [key |-> <<"s", "|", "a">>, value |-> <<"2">>] >>,
    << [key |-> <<"s", "|", "a">>, value |-> <<"1">>],
       [key |-> <<"s", "|", "c">>, value |-> <<"9">>] >>,
    << [key |-> <<"s", "|", "a">>, value |-> <<>>],
       [key |-> <<"s", "|", "b">>, value |-> <<>>] >>,
    << [key |-> <<"z">>, value |-> <<"1">>] >> }

NextParse ==
  \/ NewSubmission({1}, {[title |-> "t1", description |-> ""]}, {"ntpd.xlsx", "doc.pdf"},
                   {Absent})
  \/ EditSubmissionData({1}, DataEdits)
  \/ ReplaceUploadInline({1}, {"revised.xlsx", "plain.xlsx", "doc.pdf"})
  \/ CreateFieldsFromUpload

SpecParse == Init /\ [][NextParse]_vars

(***************************************************************************)
(* C10.  Edited values coexist with re-parsed data: when                   *)
(* create_fields_from_upload parses an upload for a submission whose       *)
(* normalized_overrides is not empty and the parse yields records, the     *)
(* rebuilt fields are one per record, in record order, each carrying the   *)
(* override value where the record's key-path string is an override key    *)
(* and the freshly parsed value otherwise; normalized_overrides stays.     *)
(***************************************************************************)
\* The key path joined with "|".
KeyString(key_path) ==
  IF Len(key_path) = 0 THEN <<>>
  ELSE IF Len(key_path) = 1 THEN key_path[1]
  ELSE key_path[1] \o <<"|">> \o key_path[2]

C10_OverridesSurviveReparse ==
  \A sid \in 1..Len(submissions), file \in Files :
    \A outcome \in ParseOutcomes(file) :
      LET overrides == submissions[sid].normalized_overrides
          records == outcome.records
          r == create_fields_from_upload(submissions[sid], file, outcome)
      IN (DOMAIN overrides # {} /\ outcome.kind = "ok" /\ records # <<>>) =>
           /\ ~r.raised
           /\ r.sub.normalized_overrides = overrides
           /\ r.sub.normalized_records = records
           /\ Len(r.fields) = Len(records)
           /\ \A i \in 1..Len(records) :
                LET key == KeyString(records[i].key_path)
                IN r.fields[i].value =
                     IF key \in DOMAIN overrides THEN overrides[key]
                     ELSE IF records[i].value = None THEN <<>>
                     ELSE records[i].value

\* The revised workbook has just been parsed for a submission whose override
\* of s.a differs from the parsed value: the first field carries the override,
\* the second the parsed value of s.c.
C10_Witness ==
  /\ last.op = "create_fields_from_upload" /\ last.resp = "ok"
  /\ Len(submissions) = 1
  /\ submissions[1].normalized_records = RevisedRecords
  /\ DOMAIN submissions[1].normalized_overrides = {<<"s", "|", "a">>}
  /\ submissions[1].normalized_overrides[<<"s", "|", "a">>] = <<"2">>
  /\ fields[1][1].value = <<"2">>
  /\ fields[1][2].value = <<"7">>

(***************************************************************************)
(* C11.  The catch-and-fallback around the optional parser: whenever       *)
(* parse_with_ntpd raises NTPDParserUnavailable or any other exception, or *)
(* returns no records, create_fields_from_upload returns, having stored    *)
(* normalized_payload = {} and normalized_records = [] and built the       *)
(* fields from the simple two-column extractor; when the parser returns    *)
(* records, the fields are built from them, one per record.                *)
(***************************************************************************)
\* parse_with_ntpd raised, or returned no records.
ParserGaveNothing(outcome) == outcome.kind # "ok" \/ outcome.records = <<>>

C11_FallbackAlwaysBuildsFields ==
  \A sid \in 1..Len(submissions), file \in Files :
    \A outcome \in ParseOutcomes(file) :
      LET r == create_fields_from_upload(submissions[sid], file, outcome)
      IN /\ ParserGaveNothing(outcome) =>
              /\ ~r.raised
              /\ r.sub.normalized_payload = EmptyPayload
              /\ r.sub.normalized_records = <<>>
              /\ r.fields = FieldRows(ExtractRows(FirstSheet(file).rows, 1))
         /\ ~ParserGaveNothing(outcome) =>
              /\ ~r.raised
              /\ r.sub.normalized_records = outcome.records
              /\ Len(r.fields) = Len(outcome.records)

(***************************************************************************)
(* Merging the override map onto the nested payload                        *)
(* (_apply_overrides_to_payload, _set_nested_value, _get_effective_payload)*)
(***************************************************************************)
RECURSIVE SplitOn(_, _)
\* str.split(sep): the segments between the separators, empty ones included.
SplitOn(s, sep) ==
  IF \A i \in 1..Len(s) : s[i] # sep THEN <<s>>
  ELSE LET i == CHOOSE k \in 1..Len(s) : s[k] = sep /\ \A j \in 1..(k - 1) : s[j] # sep
       IN <<SubSeq(s, 1, i - 1)>> \o SplitOn(SubSeq(s, i + 1, Len(s)), sep)

\* Line 282: [segment for segment in key_str.split("|") if segment]
KeyPath(key_str) == SelectSeq(SplitOn(key_str, "|"), LAMBDA segment : segment # <<>>)

RECURSIVE SetNestedCreatingNodes(_, _, _)
SetNestedCreatingNodes(data, path, value) ==
  IF data.kind # "dict" THEN data
  ELSE IF Len(path) = 1 THEN Node((path[1] :> Leaf(value)) @@ data.items)
  ELSE LET cur == IF path[1] \in DOMAIN data.items /\ data.items[path[1]].kind = "dict"
                  THEN data.items[path[1]] ELSE EmptyPayload
       IN Node((path[1] :> SetNestedCreatingNodes(cur, Tail(path), value)) @@ data.items)

RECURSIVE _set_nested_value(_, _, _)
\* `data` after _set_nested_value(data, path, value): the walk stops at a node
\* that is no dict and at a key that is missing or holds None.
_set_nested_value(data, path, value) ==
  IF data.kind # "dict" THEN data
  ELSE IF Len(path) = 1 THEN Node((path[1] :> Leaf(value)) @@ data.items)
  ELSE IF path[1] \notin DOMAIN data.items THEN data
  ELSE LET cur == data.items[path[1]]
       IN IF cur = Leaf(None) THEN data
          ELSE Node((path[1] :> _set_nested_value(cur, Tail(path), value)) @@ data.items)

RECURSIVE ApplyItems(_, _, _)
\* The loop of lines 281-285 over the keys still to visit.
ApplyItems(cloned, overrides, order) ==
  IF order = <<>> THEN cloned
  ELSE LET key_str == Head(order)
           path == KeyPath(key_str)
           next == IF path = <<>> THEN cloned
                   ELSE _set_nested_value(cloned, path, overrides[key_str])
       IN ApplyItems(next, overrides, Tail(order))

\* `order` is the order in which overrides.items() yields the keys.
_apply_overrides_to_payload(payload, overrides, order) ==
  IF DOMAIN overrides = {} THEN payload
  ELSE ApplyItems(payload, overrides, order)

_get_effective_payload(submission, order) ==
  LET payload == submission.normalized_payload
      overrides == submission.normalized_overrides
  IN IF DOMAIN overrides # {} /\ payload # EmptyPayload
     THEN _apply_overrides_to_payload(payload, overrides, order)
     ELSE payload

(***************************************************************************)
(* SpecPayload: _get_effective_payload on a stored submission, for every   *)
(* payload and override map of the sets below and every iteration order of *)
(* the map.                                                                *)
(***************************************************************************)
\* A sheet "s" with a value, a None value, and a top-level scalar "t".
MixedPayload ==
  Node(<<"s">> :> Node(<<"a">> :> Leaf(<<"1">>) @@ <<"b">> :> Leaf(None))
       @@ <<"t">> :> Leaf(<<"9">>))

PayloadInputs == {EmptyPayload, NtpdPayload, RevisedPayload, MixedPayload}

\* Override keys: a leaf of a dict, a new key of a dict, a key below a scalar,
\* below a missing node, below a None; an inner node, a top-level scalar, a key
\* with an empty segment, the empty key.
OverrideKeyInputs ==
  { <<"s", "|", "a">>, <<"s", "|", "c">>, <<"t", "|", "a">>, <<"u", "|", "a">>,
    <<"s", "|", "b", "|", "a">>, <<"s">>, <<"t">>, <<"s", "|", "|", "a">>, <<>> }

OverrideInputs ==
  {EmptyDict}
    \cup {k :> v : k \in OverrideKeyInputs, v \in {<<"2">>, <<>>}}
    \cup {(q[1] :> <<"2">>) @@ (q[2] :> <<"3">>) :
            q \in {q \in OverrideKeyInputs \X OverrideKeyInputs : q[1] # q[2]}}

\* The orders in which a dict may yield its keys.
KeyOrders(d) ==
  {order \in [1..Cardinality(DOMAIN d) -> DOMAIN d] :
     \A k \in DOMAIN d : \E i \in DOMAIN order : order[i] = k}

InitPayload ==
  /\ \E payload \in PayloadInputs, overrides \in OverrideInputs :
       submissions = << [borrower |-> 1, status |-> "DRAFT", title |-> "t1",
                         description |-> "",
                         normalized_payload |-> payload,
                         normalized_records |-> <<>>,
                         normalized_overrides |-> overrides] >>
  /\ fields = << <<>> >>
  /\ uploads = <<>>
  /\ events = <<>>
  /\ signups = <<>>
  /\ workbook = <<>>
  /\ inflight = NoneInFlight
  /\ last = NoRequest

GetEffectivePayload ==
  \E sid \in 1..Len(submissions) :
    \E order \in KeyOrders(submissions[sid].normalized_overrides) :
      /\ last' = Request("_get_effective_payload", submissions[sid].borrower,
                         _get_effective_payload(submissions[sid], order))
      /\ UNCHANGED <<submissions, fields, uploads, events, signups, workbook, inflight>>

NextPayload == GetEffectivePayload

SpecPayload == InitPayload /\ [][NextPayload]_vars

(***************************************************************************)
(* C12.  _apply_overrides_to_payload merges the flat override map onto the *)
(* nested payload by path lookup.                                          *)
(***************************************************************************)
\* What a path resolves to in a payload: a node, or nothing.
Missing == [kind |-> "missing"]

RECURSIVE Resolve(_, _)
Resolve(node, path) ==
  IF path = <<>> THEN node
  ELSE IF node.kind = "dict" /\ Head(path) \in DOMAIN node.items
       THEN Resolve(node.items[Head(path)], Tail(path))
       ELSE Missing

\* Every proper prefix of the path resolves to a dict.
PrefixesAreDicts(payload, path) ==
  \A n \in 0..(Len(path) - 1) : Resolve(payload, SubSeq(path, 1, n)).kind = "dict"

IsPrefix(a, b) == Len(a) <= Len(b) /\ SubSeq(b, 1, Len(a)) = a

Segments == {<<"s">>, <<"t">>, <<"u">>, <<"a">>, <<"b">>, <<"c">>, <<>>}

\* The paths of up to three segments.
PathUniverse == UNION {[1..n -> Segments] : n \in 1..3}

\* The override map without one key, and a key order without it.
Without(overrides, key) == [k \in DOMAIN overrides \ {key} |-> overrides[k]]
OrderWithout(order, key) == SelectSeq(order, LAMBDA k : k # key)

\* C12 as claimed, the path of a key read as the code reads it (the non-empty
\* segments of the key split on "|", a key without any being skipped): for
\* every override key, if every proper prefix of the path resolves to a dict
\* in the payload, the value at the path in the result is the override value;
\* otherwise the override is ignored; every payload path not named by an
\* override has the same value in the result as in the input.
C12_AsClaimed ==
  \A sid \in 1..Len(submissions) :
    LET payload == submissions[sid].normalized_payload
        overrides == submissions[sid].normalized_overrides
    IN \A order \in KeyOrders(overrides) :
         LET result == _apply_overrides_to_payload(payload, overrides, order)
         IN /\ \A key \in DOMAIN overrides :
                 LET path == KeyPath(key)
                 IN \/ path = <<>>
                    \/ IF PrefixesAreDicts(payload, path)
                       THEN Resolve(result, path) = Leaf(overrides[key])
                       ELSE result = _apply_overrides_to_payload(
                                       payload, Without(overrides, key),
                                       OrderWithout(order, key))
            /\ \A path \in PathUniverse :
                 (/\ Resolve(payload, path).kind = "leaf"
                  /\ \A key \in DOMAIN overrides : KeyPath(key) # path)
                   => Resolve(result, path) = Resolve(payload, path)

\* An override the merge can apply: its path, the non-empty segments of its
\* key, is not empty and every proper prefix of it resolves to a dict.
Settable(payload, key) ==
  KeyPath(key) # <<>> /\ PrefixesAreDicts(payload, KeyPath(key))

\* C12 amended: the path of an override key is the sequence of the non-empty
\* segments of the key split on "|".  (a) If the path is not empty, every
\* proper prefix of it resolves to a dict in the payload and no other
\* override's path is a prefix of it, the value at the path in the result is
\* the override value.  (b) An override whose path is empty or has a missing or
\* non-dict intermediate node is ignored: the result is that of the merge
\* without it.  (c) Every path that neither extends nor is a prefix of the path
\* of an applicable override resolves in the result to what it resolves to in
\* the input (nothing, where it resolved to nothing).
C12_OverridesMergeByPath ==
  \A sid \in 1..Len(submissions) :
    LET payload == submissions[sid].normalized_payload
        overrides == submissions[sid].normalized_overrides
    IN \A order \in KeyOrders(overrides) :
         LET result == _apply_overrides_to_payload(payload, overrides, order)
         IN /\ \A key \in DOMAIN overrides :
                 (/\ Settable(payload, key)
                  /\ \A other \in DOMAIN overrides \ {key} :
                       KeyPath(other) = <<>> \/ ~IsPrefix(KeyPath(other), KeyPath(key)))
                   => Resolve(result, KeyPath(key)) = Leaf(overrides[key])
            /\ \A key \in DOMAIN overrides :
                 ~Settable(payload, key) =>
                   result = _apply_overrides_to_payload(
                              payload, Without(overrides, key), OrderWithout(order, key))
            /\ \A path \in PathUniverse :
                 (\A key \in DOMAIN overrides :
                    Settable(payload, key) =>
                      /\ ~IsPrefix(KeyPath(key), path)
                      /\ ~IsPrefix(path, KeyPath(key)))
                   => Resolve(result, path) = Resolve(payload, path)

\* The merge has just run with one override of a leaf and one below a missing
\* node: the leaf carries the override, nothing was created for the other.
C12_Witness ==
  /\ last.op = "_get_effective_payload"
  /\ submissions[1].normalized_payload = MixedPayload
  /\ submissions[1].normalized_overrides
       = (<<"s", "|", "a">> :> <<"2">>) @@ (<<"u", "|", "a">> :> <<"3">>)
  /\ Resolve(last.resp, << <<"s">>, <<"a">> >>) = Leaf(<<"2">>)
  /\ Resolve(last.resp, << <<"s">>, <<"b">> >>) = Leaf(None)
  /\ Resolve(last.resp, << <<"u">> >>) = Missing

(***************************************************************************)
(* SpecGuess: the type guess of the two field builders.  A record holds a  *)
(* value string (or None); _rebuild_submission_fields builds the field of  *)
(* the record, and the simple extractor reads a sheet whose one row holds  *)
(* the same text in column B.                                              *)
(***************************************************************************)
ValueAlphabet == {"1", ",", ".", "-", " ", "x"}

ValueInputs == UNION {[1..n -> ValueAlphabet] : n \in 0..MaxValueLen} \cup {None}

\* str(value_cell) of the sheet's cell for a record value.
CellText(value) == IF value = None THEN <<>> ELSE value

InitGuess ==
  /\ \E value \in ValueInputs :
       submissions = << [borrower |-> 1, status |-> "DRAFT", title |-> "t1",
                         description |-> "",
                         normalized_payload |-> EmptyPayload,
                         normalized_records |->
                           << [key_path |-> << <<"k">> >>,
                               label_path |-> << <<"L">> >>,
                               value |-> value] >>,
                         normalized_overrides |-> EmptyDict] >>
  /\ fields = << <<>> >>
  /\ uploads = <<>>
  /\ events = <<>>
  /\ signups = <<>>
  /\ workbook = <<>>
  /\ inflight = NoneInFlight
  /\ last = NoRequest

RebuildSubmissionFields ==
  \E sid \in 1..Len(submissions) :
    /\ fields' = [fields EXCEPT
                    ![sid] = _rebuild_submission_fields(submissions[sid].normalized_records)]
    /\ last' = Request("_rebuild_submission_fields", submissions[sid].borrower, "ok")
    /\ UNCHANGED <<submissions, uploads, events, signups, workbook, inflight>>

ExtractFieldsFromSheet ==
  \E sid \in 1..Len(submissions) :
    LET rows == [i \in 1..Len(submissions[sid].normalized_records) |->
                   << <<"L">>, CellText(submissions[sid].normalized_records[i].value) >>]
    IN /\ fields' = [fields EXCEPT ![sid] = FieldRows(ExtractRows(rows, 1))]
       /\ last' = Request("extract_fields_from_upload", submissions[sid].borrower, "ok")
       /\ UNCHANGED <<submissions, uploads, events, signups, workbook, inflight>>

NextGuess == RebuildSubmissionFields \/ ExtractFieldsFromSheet

SpecGuess == InitGuess /\ [][NextGuess]_vars

(***************************************************************************)
(* C13.  The data type of a field is guessed by a trial parse: NUMBER      *)
(* exactly when the value string with its commas removed is a decimal      *)
(* numeral, TEXT otherwise (so for an empty or missing value); the simple  *)
(* extractor and _records_to_field_specs classify a value string alike.    *)
(***************************************************************************)
AllIn(s, chars) == \A i \in 1..Len(s) : s[i] \in chars

\* Optional blanks, an optional sign, then digits, digits "." digits with a
\* digit on at least one side of the point, then optional blanks.
IsDecimalNumeral(s) ==
  \E i \in 0..Len(s), j \in 0..Len(s) :
    /\ i <= j
    /\ AllIn(SubSeq(s, 1, i), {" "})
    /\ AllIn(SubSeq(s, j + 1, Len(s)), {" "})
    /\ LET core == SubSeq(s, i + 1, j)
           unsigned == IF core # <<>> /\ core[1] \in {"+", "-"} THEN Tail(core) ELSE core
       IN \E k \in 0..Len(unsigned) :
            LET int_part == SubSeq(unsigned, 1, k)
                rest == SubSeq(unsigned, k + 1, Len(unsigned))
            IN /\ AllIn(int_part, Digits)
               /\ \/ rest = <<>> /\ int_part # <<>>
                  \/ /\ rest # <<>> /\ rest[1] = "."
                     /\ AllIn(Tail(rest), Digits)
                     /\ Len(int_part) + Len(rest) >= 2

TypeOf(value_str) ==
  IF IsDecimalNumeral(SelectSeq(value_str, LAMBDA c : c # ",")) THEN "NUMBER" ELSE "TEXT"

C13_TypeGuessedByTrialParse ==
  \A sid \in 1..Len(submissions) :
    LET records == submissions[sid].normalized_records
    IN \A i \in 1..Len(records) :
         LET text == IF records[i].value = None THEN <<>> ELSE records[i].value
             spec == _records_to_field_specs(records)[i]
             extracted == ExtractRows(<< << <<"L">>, text >> >>, 1)
         IN /\ spec.value = text
            /\ spec.data_type = TypeOf(text)
            /\ text = <<>> => spec.data_type = "TEXT"
            /\ Len(extracted) = 1
            /\ extracted[1].data_type = TypeOf(extracted[1].value)
            /\ extracted[1].data_type = spec.data_type

\* The field of a record whose value is "1,1" has just been built: a NUMBER.
C13_Witness ==
  /\ last.op = "_rebuild_submission_fields"
  /\ submissions[1].normalized_records[1].value = <<"1", ",", "1">>
  /\ fields[1][1].value = <<"1", ",", "1">>
  /\ fields[1][1].data_type = "NUMBER"

(***************************************************************************)
(* The users app (users/views.py, users/forms.py).                         *)
(***************************************************************************)
\* users/views.py has its own copy of _is_lender_like.
users__is_lender_like(u) == is_lender(u) \/ User(u).is_staff \/ User(u).is_superuser

_is_borrower_like(u) == is_borrower(u)

\* The choices of SignUpForm.role.
RoleChoices == {"BORROWER", "LENDER"}

\* SignUpForm.clean_role does not raise ValidationError.
clean_role(role) == role \in {"BORROWER", "LENDER"}

SignUpFormAcceptsAnyRole(accounts, form) ==
  /\ form.fields_valid
  /\ \A i \in 1..Len(accounts) : accounts[i].username # form.username

\* SignUpForm.is_valid(): UserCreationForm's checks of username, email and
\* passwords are an input (fields_valid) but for the username being free; the
\* role has to be one of the choices and to pass clean_role.
SignUpForm_is_valid(accounts, form) ==
  /\ form.fields_valid
  /\ \A i \in 1..Len(accounts) : accounts[i].username # form.username
  /\ form.role \in RoleChoices
  /\ clean_role(form.role)

\* signup: the response, the accounts signup has created, and who is logged in
\* afterwards (0: nobody).
signup(accounts, method, form) ==
  IF method = "POST" /\ SignUpForm_is_valid(accounts, form)
  THEN [resp |-> "redirect",
        signups |-> Append(accounts, [username |-> form.username, role |-> form.role,
                                      is_staff |-> FALSE, is_superuser |-> FALSE]),
        user |-> SignupId(Len(accounts) + 1)]
  ELSE [resp |-> "render", signups |-> accounts, user |-> 0]

RedirectByRoleFirst(u) ==
  IF _is_borrower_like(u) THEN "borrower_dashboard"
  ELSE IF users__is_lender_like(u) THEN "lender_dashboard"
  ELSE IF User(u).is_superuser \/ User(u).is_staff THEN "/admin/"
  ELSE "home"

\* Where post_login_redirect sends user u.
post_login_redirect(u) ==
  IF User(u).is_superuser \/ User(u).is_staff THEN "/admin/"
  ELSE IF _is_borrower_like(u) THEN "borrower_dashboard"
  ELSE IF users__is_lender_like(u) THEN "lender_dashboard"
  ELSE "home"

borrower_dashboard(u) == IF ~_is_borrower_like(u) THEN "forbidden" ELSE "render"

lender_dashboard(u) == IF ~users__is_lender_like(u) THEN "forbidden" ELSE "render"

(***************************************************************************)
(* SpecUsers: visitors sign up, accounts log in and open the dashboards.   *)
(***************************************************************************)
\* What a signup POST sends: a role of the form, ADMIN, or none.
SignupForms ==
  [username : {"u1", "u2", "u3"}, role : Roles \cup {""}, fields_valid : BOOLEAN]

Signup ==
  \E method \in Methods :
    \E form \in (IF method = "POST" THEN SignupForms
                 ELSE {[username |-> "u1", role |-> "", fields_valid |-> FALSE]}) :
      LET r == signup(signups, method, form)
      IN /\ Len(r.signups) <= MaxSignups
         /\ signups' = r.signups
         /\ last' = [op |-> "signup", user |-> r.user, resp |-> r.resp, role |-> form.role]
         /\ UNCHANGED <<submissions, fields, uploads, events, workbook, inflight>>

PostLoginRedirect ==
  \E u \in AccountIds :
    /\ last' = Request("post_login_redirect", u, post_login_redirect(u))
    /\ UNCHANGED <<submissions, fields, uploads, events, signups, workbook, inflight>>

BorrowerDashboard ==
  \E u \in AccountIds :
    /\ last' = Request("borrower_dashboard", u, borrower_dashboard(u))
    /\ UNCHANGED <<submissions, fields, uploads, events, signups, workbook, inflight>>

LenderDashboard ==
  \E u \in AccountIds :
    /\ last' = Request("lender_dashboard", u, lender_dashboard(u))
    /\ UNCHANGED <<submissions, fields, uploads, events, signups, workbook, inflight>>

NextUsers == Signup \/ PostLoginRedirect \/ BorrowerDashboard \/ LenderDashboard

SpecUsers == Init /\ [][NextUsers]_vars

(***************************************************************************)
(* C14.  A user is borrower-like exactly when their role is BORROWER, and  *)
(* administrators are not included: no user with is_staff or is_superuser  *)
(* set and no user with role ADMIN passes _is_borrower_like, opens         *)
(* borrower_dashboard or creates a submission, and no user is both         *)
(* borrower-like and lender-like.                                          *)
(***************************************************************************)
C14_AdminsAreNotBorrowerLike ==
  \A u \in AccountIds :
    /\ _is_borrower_like(u) <=> User(u).role = "BORROWER"
    /\ (User(u).is_staff \/ User(u).is_superuser \/ User(u).role = "ADMIN") =>
         /\ ~_is_borrower_like(u)
         /\ borrower_dashboard(u) = "forbidden"
         /\ \A q \in NewRequests : \A outcome \in ParseOutcomes(q.p.file_1) :
              new_submission(DB, u, q.method, q.valid, q.p.form, q.p.file_1, q.p.file_2,
                             outcome).resp = "forbidden"
    /\ ~(_is_borrower_like(u) /\ users__is_lender_like(u))
    /\ ~(_is_borrower_like(u) /\ _is_lender_like(u))

(***************************************************************************)
(* C15.  The ADMIN role cannot be obtained through sign-up: a signup       *)
(* request whose role is not BORROWER or LENDER is rejected (the form is   *)
(* shown again) and creates no user; a request that creates a user creates *)
(* exactly one, with the role it sent, BORROWER or LENDER, and without the *)
(* staff and superuser flags; so every user signup created has role        *)
(* BORROWER or LENDER.                                                     *)
(***************************************************************************)
C15_NoAdminBySignup ==
  /\ \A i \in 1..Len(signups) : signups[i].role \in {"BORROWER", "LENDER"}
  /\ \A method \in Methods, form \in SignupForms :
       LET r == signup(signups, method, form)
       IN /\ form.role \notin {"BORROWER", "LENDER"} =>
               r.resp = "render" /\ r.signups = signups
          /\ r.signups # signups =>
               /\ r.resp = "redirect"
               /\ Len(r.signups) = Len(signups) + 1
               /\ SubSeq(r.signups, 1, Len(signups)) = signups
               /\ r.signups[Len(r.signups)].role = form.role
               /\ form.role \in {"BORROWER", "LENDER"}
               /\ ~r.signups[Len(r.signups)].is_staff
               /\ ~r.signups[Len(r.signups)].is_superuser
          /\ (method = "POST" /\ form.fields_valid /\ form.role \in {"BORROWER", "LENDER"}
              /\ \A i \in 1..Len(signups) : signups[i].username # form.username)
               => r.signups # signups

\* A signup sending ADMIN has just been rejected, after a lender signed up.
C15_Witness ==
  /\ last.op = "signup" /\ last.role = "ADMIN" /\ last.resp = "render"
  /\ Len(signups) = 1 /\ signups[1].role = "LENDER"

(***************************************************************************)
(* C16.  post_login_redirect sends a logged-in user to the admin page if   *)
(* the user is superuser or staff, whatever the role; otherwise to the     *)
(* borrower dashboard if the role is BORROWER, otherwise to the lender     *)
(* dashboard if the role is LENDER, otherwise home; and the dashboard a    *)
(* user is sent to does not answer that user "forbidden".                  *)
(***************************************************************************)
C16_RedirectByFlagsThenRole ==
  \A u \in AccountIds :
    LET to == post_login_redirect(u)
    IN /\ to = CASE User(u).is_superuser \/ User(u).is_staff -> "/admin/"
                 [] ~(User(u).is_superuser \/ User(u).is_staff)
                      /\ User(u).role = "BORROWER" -> "borrower_dashboard"
                 [] ~(User(u).is_superuser \/ User(u).is_staff)
                      /\ User(u).role = "LENDER" -> "lender_dashboard"
                 [] OTHER -> "home"
       /\ to = "borrower_dashboard" => borrower_dashboard(u) = "render"
       /\ to = "lender_dashboard" => lender_dashboard(u) = "render"
       /\ ~User(u).is_staff => to \in {"/admin/", "borrower_dashboard",
                                       "lender_dashboard", "home"}

\* A superuser whose role is BORROWER has just been sent to the admin page,
\* while a lender who signed up exists.
C16_Witness ==
  /\ last.op = "post_login_redirect" /\ last.user = 5 /\ last.resp = "/admin/"
  /\ Len(signups) >= 1 /\ signups[1].role = "LENDER"

(***************************************************************************)
(* C17.  A POST to new_submission by a borrower with valid forms always    *)
(* completes by redirecting to edit_submission for the new submission,     *)
(* with the submission, its initial event and every uploaded file stored   *)
(* and the parse of the first uploaded file completed; a failure to parse  *)
(* the uploaded file, whatever its type, never aborts the request or       *)
(* leaves a submission stored without the redirect.                        *)
(***************************************************************************)
C17_NewSubmissionAlwaysRedirects ==
  \A user \in {u \in UserIds : User(u).role = "BORROWER"} :
    \A q \in {n \in NewRequests : n.method = "POST" /\ n.valid} :
      \A outcome \in ParseOutcomes(q.p.file_1) :
        LET r == new_submission(DB, user, q.method, q.valid, q.p.form, q.p.file_1,
                                q.p.file_2, outcome)
            sid == Len(submissions) + 1
            files == SentFiles(q.p.file_1, q.p.file_2)
        IN /\ r.resp = "redirect"
           /\ Len(r.db.submissions) = sid
           /\ Len(EventsOf(r.db.events, sid)) = 1
           /\ r.db.uploads =
                uploads \o [i \in 1..Len(files) |->
                              [submission |-> sid, file |-> files[i],
                               original_name |-> files[i]]]

\* A borrower's valid POST has been aborted by the parse of its file, and the
\* submission it created is stored, without fields.
C17_Witness ==
  /\ last.op = "new_submission" /\ last.resp = "error"
  /\ User(last.user).role = "BORROWER"
  /\ Len(submissions) = 1 /\ submissions[1].borrower = last.user
  /\ Len(uploads) = 1 /\ uploads[1].file = "doc.pdf"
  /\ fields[1] = <<>>

(***************************************************************************)
(* SpecSheet: the simple extractor on a workbook.  `workbook` holds the    *)
(* rows of the first sheet, columns A and B, of the file of the upload of  *)
(* submission 1; create_fields_from_upload's fallback stores the specs the *)
(* extractor returns as the submission's fields.                           *)
(***************************************************************************)
LabelCells == {None, <<"A">>, <<" ", "B", " ", "c", " ">>}

ValueCells == {None, <<"1">>, <<" ", "x">>}

SheetInputs == UNION {[1..n -> LabelCells \X ValueCells] : n \in 0..MaxRows}

InitSheet ==
  /\ workbook \in SheetInputs
  /\ inflight = NoneInFlight
  /\ submissions = << [borrower |-> 1, status |-> "DRAFT", title |-> "t1",
                       description |-> "",
                       normalized_payload |-> EmptyPayload,
                       normalized_records |-> <<>>,
                       normalized_overrides |-> EmptyDict] >>
  /\ fields = << <<>> >>
  /\ uploads = << NewUpload(1, "sheet.xlsx") >>
  /\ events = <<>>
  /\ signups = <<>>
  /\ last = NoRequest

ExtractFieldsFromWorkbook ==
  /\ fields' = [fields EXCEPT ![1] = FieldRows(ExtractRows(workbook, 1))]
  /\ last' = Request("extract_fields_from_upload", submissions[1].borrower, "ok")
  /\ UNCHANGED <<submissions, uploads, events, signups, workbook, inflight>>

NextSheet == ExtractFieldsFromWorkbook

SpecSheet == InitSheet /\ [][NextSheet]_vars

(***************************************************************************)
(* C18.  The simple extractor creates a field for every filled row and     *)
(* only for those: of the first sheet's rows read in order, each row whose *)
(* column-A label and column-B value are both present yields exactly one   *)
(* field (label = stripped label, value = stripped value text), each row   *)
(* with a missing label or value yields none, and the fields keep row      *)
(* order with order numbers 1, 2, ..., n without gaps.                     *)
(***************************************************************************)
\* The rows of the workbook that have both cells.
FilledRows == {i \in 1..Len(workbook) : workbook[i][1] # None /\ workbook[i][2] # None}

\* The place of filled row i among the filled rows.
RankOfRow(i) == Cardinality({j \in FilledRows : j <= i})

C18_OneFieldPerFilledRow ==
  LET out == ExtractRows(workbook, 1)
  IN /\ Len(out) = Cardinality(FilledRows)
     /\ \A k \in 1..Len(out) : out[k].order = k
     /\ \A i \in FilledRows :
          /\ out[RankOfRow(i)].label = Strip(workbook[i][1])
          /\ out[RankOfRow(i)].value = Strip(workbook[i][2])
     /\ last.op = "extract_fields_from_upload" =>
          /\ Len(fields[1]) = Cardinality(FilledRows)
          /\ \A k \in 1..Len(fields[1]) :
               fields[1][k].order = k /\ fields[1][k].value = out[k].value

\* A sheet whose second row lacks its label has been read: two fields, the
\* third row's numbered 2.
C18_Witness ==
  /\ last.op = "extract_fields_from_upload"
  /\ Len(workbook) = 3
  /\ workbook[1][1] # None /\ workbook[1][2] # None
  /\ workbook[2][1] = None /\ workbook[2][2] # None
  /\ workbook[3] = << <<" ", "B", " ", "c", " ">>, <<" ", "x">> >>
  /\ Len(fields[1]) = 2
  /\ fields[1][2].order = 2 /\ fields[1][2].label = <<"B", " ", "c">>
  /\ fields[1][2].value = <<"x">>

(***************************************************************************)
(* C19.  A valid edit_submission POST appends a STATUS_CHANGE event if and *)
(* only if the request changed the submission's status; the event's        *)
(* from_status is the status before the request, its to_status the new     *)
(* status and its actor the borrower; when the status is unchanged no      *)
(* event is appended.                                                      *)
(***************************************************************************)
C19_EventIffStatusChanged ==
  \A sid \in 1..Len(submissions) :
    \A q \in {e \in EditPosts : e.valid} :
      LET borrower == submissions[sid].borrower
          r == EditWith(borrower, sid, q.method, q.valid, q.action, q.p)
          before == submissions[sid].status
          after == r.db.submissions[sid].status
      IN /\ before # "FINALIZED" => r.resp = "redirect"
         /\ r.resp = "redirect" =>
              IF before # after
              THEN /\ Len(r.db.events) = Len(events) + 1
                   /\ SubSeq(r.db.events, 1, Len(events)) = events
                   /\ LET e == r.db.events[Len(r.db.events)]
                      IN /\ e.submission = sid
                         /\ e.event_type = "STATUS_CHANGE"
                         /\ e.from_status = before
                         /\ e.to_status = after
                         /\ e.actor = borrower
              ELSE r.db.events = events

\* The borrower has saved a draft as a draft: the form's data is stored and
\* the creation's event is still the only one.
C19_Witness ==
  /\ last.op = "edit_submission" /\ last.resp = "redirect"
  /\ Len(submissions) = 1 /\ submissions[1].borrower = last.user
  /\ submissions[1].status = "DRAFT" /\ submissions[1].title = "t2"
  /\ Len(events) = 1 /\ events[1].from_status = Null

(***************************************************************************)
(* C20.  After a valid edit_submission_data POST normalized_overrides is   *)
(* exactly the map {key -> submitted value} over the submitted rows whose  *)
(* value differs from the base record's stringified value for that key     *)
(* (the last such row, if a key is submitted twice; the empty string       *)
(* standing for the base value of a key of no record): rows whose value    *)
(* equals the base value produce no override, earlier overrides not        *)
(* re-submitted are dropped, and submitting every value equal to its base  *)
(* value leaves an empty override map.                                     *)
(***************************************************************************)
\* The stringified value of the record of `key`: "" for None and for no record.
BaseValueOf(records, key) ==
  LET having == {j \in 1..Len(records) : KeyString(records[j].key_path) = key}
      j == CHOOSE m \in having : \A n \in having : n <= m
  IN IF having = {} \/ records[j].value = None THEN <<>> ELSE records[j].value

\* The submitted rows that differ from the base value of their key.
Differing(records, rows) ==
  {i \in 1..Len(rows) : rows[i].value # BaseValueOf(records, rows[i].key)}

ExpectedOverrides(records, rows) ==
  LET d == Differing(records, rows)
  IN [k \in {rows[i].key : i \in d} |->
        rows[CHOOSE i \in d : rows[i].key = k
                               /\ \A n \in d : rows[n].key = k => n <= i].value]

\* The formset's rows for a submission: one per record, each value the base
\* value, "2" or blank; the rows of DataEdits; a key submitted twice.
RowsFor(records) ==
  {rows \in [1..Len(records) -> [key : {KeyString(records[j].key_path) : j \in 1..Len(records)},
                                 value : {<<>>, <<"1">>, <<"2">>, <<"5">>}]] :
     \A i \in 1..Len(records) :
       /\ rows[i].key = KeyString(records[i].key_path)
       /\ rows[i].value \in {BaseValueOf(records, rows[i].key), <<"2">>, <<>>}}
    \cup DataEdits
    \cup { << [key |-> <<"s", "|", "a">>, value |-> <<"2">>],
              [key |-> <<"s", "|", "a">>, value |-> BaseValueOf(records, <<"s", "|", "a">>)] >>,
           << [key |-> <<"s", "|", "a">>, value |-> <<"2">>],
              [key |-> <<"s", "|", "a">>, value |-> <<"3">>] >> }

C20_OverridesAreTheDifferingRows ==
  \A sid \in 1..Len(submissions) :
    LET sub == submissions[sid]
        records == sub.normalized_records
    IN \A rows \in RowsFor(records) :
         LET r == edit_submission_data(DB, sub.borrower, sid, "POST", TRUE, rows)
             after == r.db.submissions[sid].normalized_overrides
         IN /\ (sub.status # "FINALIZED" /\ records # <<>>) => r.resp = "redirect"
            /\ r.resp = "redirect" =>
                 /\ after = ExpectedOverrides(records, rows)
                 /\ Differing(records, rows) = {} => after = EmptyDict
                 /\ \A k \in DOMAIN sub.normalized_overrides :
                      (\A i \in 1..Len(rows) : rows[i].key # k) => k \notin DOMAIN after

\* The data editor has just stored s.c = "9" as the only override: s.a was
\* submitted as parsed, and whatever was overridden before is dropped.
C20_Witness ==
  /\ last.op = "edit_submission_data" /\ last.resp = "redirect"
  /\ Len(submissions) = 1
  /\ submissions[1].normalized_records = NtpdRecords
  /\ DOMAIN submissions[1].normalized_overrides = {<<"s", "|", "c">>}
  /\ submissions[1].normalized_overrides[<<"s", "|", "c">>] = <<"9">>

(***************************************************************************)
(* SpecRecords: _get_effective_records on a stored submission, for every   *)
(* list of up to MaxRecords records and every override map of the sets     *)
(* below.                                                                  *)
(***************************************************************************)
\* _get_effective_records(submission)
_get_effective_records(submission) ==
  LET records == submission.normalized_records
      overrides == submission.normalized_overrides
  IN IF DOMAIN overrides # {} /\ records # <<>>
     THEN _apply_overrides_to_records(records, overrides)
     ELSE records

\* Records as parse_with_ntpd builds them: key path, label path, value text
\* or None.
RecordInputs ==
  { [key_path |-> kp, label_path |-> kp, value |-> v] :
      kp \in { << <<"s">>, <<"a">> >>, << <<"s">>, <<"b">> >>, << <<"t">> >>, <<>> },
      v \in {<<"1">>, None} }

RecordListInputs == UNION {[1..n -> RecordInputs] : n \in 0..MaxRecords}

\* Override maps: none; one key of a record, of no record, the empty key; two
\* keys.
RecordOverrideInputs ==
  {EmptyDict}
    \cup {k :> v : k \in {<<"s", "|", "a">>, <<"t">>, <<"z">>, <<>>}, v \in {<<"2">>, <<>>}}
    \cup {(<<"s", "|", "a">> :> <<"2">>) @@ (<<"s", "|", "b">> :> <<"3">>)}

InitRecords ==
  /\ \E records \in RecordListInputs, overrides \in RecordOverrideInputs :
       submissions = << [borrower |-> 1, status |-> "DRAFT", title |-> "t1",
                         description |-> "",
                         normalized_payload |-> EmptyPayload,
                         normalized_records |-> records,
                         normalized_overrides |-> overrides] >>
  /\ fields = << <<>> >>
  /\ uploads = <<>>
  /\ events = <<>>
  /\ signups = <<>>
  /\ workbook = <<>>
  /\ inflight = NoneInFlight
  /\ last = NoRequest

GetEffectiveRecords ==
  \E sid \in 1..Len(submissions) :
    /\ last' = Request("_get_effective_records", submissions[sid].borrower,
                       _get_effective_records(submissions[sid]))
    /\ UNCHANGED <<submissions, fields, uploads, events, signups, workbook, inflight>>

NextRecords == GetEffectiveRecords

SpecRecords == InitRecords /\ [][NextRecords]_vars

(***************************************************************************)
(* C21.  _apply_overrides_to_records returns a list of the same length and *)
(* order as its input in which each record keeps its key_path and          *)
(* label_path and has value overrides[key] when the record's "|"-joined    *)
(* key path is an override key and its original value otherwise; with an   *)
(* empty override map the input is returned as is; the stored records are  *)
(* the same after _get_effective_records, whose result is that list.       *)
(***************************************************************************)
C21_OverridesApplyPerRecord ==
  \A sid \in 1..Len(submissions) :
    LET records == submissions[sid].normalized_records
        overrides == submissions[sid].normalized_overrides
        out == _apply_overrides_to_records(records, overrides)
        expected ==
          [i \in 1..Len(records) |->
             [key_path |-> records[i].key_path,
              label_path |-> records[i].label_path,
              value |-> IF KeyString(records[i].key_path) \in DOMAIN overrides
                        THEN overrides[KeyString(records[i].key_path)]
                        ELSE records[i].value]]
    IN /\ Len(out) = Len(records)
       /\ out = expected
       /\ overrides = EmptyDict => out = records
       /\ last.op = "_get_effective_records" => last.resp = expected

\* Two records, the first overridden and the second not, have been merged.
C21_Witness ==
  /\ last.op = "_get_effective_records"
  /\ Len(submissions[1].normalized_records) = 2
  /\ submissions[1].normalized_records[1].value = <<"1">>
  /\ submissions[1].normalized_records[2].value = None
  /\ DOMAIN submissions[1].normalized_overrides = {<<"s", "|", "a">>}
  /\ last.resp[1].value = <<"2">>
  /\ last.resp[2].value = None
  /\ last.resp[2].key_path = << <<"t">> >>

(***************************************************************************)
(* C22.  After a valid edit_submission_data POST the submission's fields   *)
(* are exactly one per base record, in record order with order numbers     *)
(* 1..n, the previous fields deleted; normalized_records and               *)
(* normalized_payload are unchanged.                                       *)
(***************************************************************************)
\* The fields of submission `sid` after the POST of `rows`, and what the
\* claim's parts say of them.
FieldsAfterDataEdit(sid, rows) ==
  edit_submission_data(DB, submissions[sid].borrower, sid, "POST", TRUE, rows).db.fields[sid]

\* The value the claim gives field i: the override if present, else the
\* record's value (nothing for None).
ValueAfterDataEdit(records, rows, i) ==
  LET overrides == ExpectedOverrides(records, rows)
      key == KeyString(records[i].key_path)
  IN IF key \in DOMAIN overrides THEN overrides[key]
     ELSE IF records[i].value = None THEN <<>> ELSE records[i].value

\* The tokens of a path that are not empty.
NonEmptyTokens(path) == SelectSeq(path, LAMBDA t : t # <<>>)

DataEditAccepted(sid) ==
  submissions[sid].status # "FINALIZED" /\ submissions[sid].normalized_records # <<>>

\* As claimed: name = the key path joined by "." (field_i when the path is
\* empty), label = the label path joined by " / ".
C22_AsClaimed ==
  \A sid \in {n \in 1..Len(submissions) : DataEditAccepted(n)} :
    LET records == submissions[sid].normalized_records
    IN \A rows \in RowsFor(records) :
         LET after == FieldsAfterDataEdit(sid, rows)
         IN /\ Len(after) = Len(records)
            /\ \A i \in 1..Len(after) :
                 /\ after[i].order = i
                 /\ after[i].name = IF records[i].key_path = <<>>
                                    THEN <<"field_", ToString(i)>>
                                    ELSE JoinSeq(records[i].key_path, <<".">>)
                 /\ after[i].label = JoinSeq(records[i].label_path, <<" ", "/", " ">>)
                 /\ after[i].value = ValueAfterDataEdit(records, rows, i)

\* Amended: name and label are joined from the non-empty tokens of the paths,
\* and are field_i and "Field i" when there is none.
C22_FieldsRebuiltFromRecords ==
  \A sid \in {n \in 1..Len(submissions) : DataEditAccepted(n)} :
    LET records == submissions[sid].normalized_records
    IN \A rows \in RowsFor(records) :
         LET r == edit_submission_data(DB, submissions[sid].borrower, sid, "POST", TRUE, rows)
             after == r.db.fields[sid]
         IN /\ r.resp = "redirect"
            /\ r.db.submissions[sid].normalized_records = records
            /\ r.db.submissions[sid].normalized_payload = submissions[sid].normalized_payload
            /\ Len(after) = Len(records)
            /\ \A i \in 1..Len(after) :
                 /\ after[i].order = i
                 /\ after[i].name =
                      IF NonEmptyTokens(records[i].key_path) = <<>>
                      THEN <<"field_", ToString(i)>>
                      ELSE JoinSeq(NonEmptyTokens(records[i].key_path), <<".">>)
                 /\ after[i].label =
                      IF NonEmptyTokens(records[i].label_path) = <<>>
                      THEN <<"Field ", ToString(i)>>
                      ELSE JoinSeq(NonEmptyTokens(records[i].label_path), <<" ", "/", " ">>)
                 /\ after[i].value = ValueAfterDataEdit(records, rows, i)

\* The data editor has just overridden s.a: two fields, the first with the
\* override, the second labelled from the one non-empty token of its path.
C22_Witness ==
  /\ last.op = "edit_submission_data" /\ last.resp = "redirect"
  /\ Len(submissions) = 1
  /\ submissions[1].normalized_records = NtpdRecords
  /\ DOMAIN submissions[1].normalized_overrides = {<<"s", "|", "a">>}
  /\ Len(fields[1]) = 2
  /\ fields[1][1].value = <<"2">> /\ fields[1][1].name = <<"s", ".", "a">>
  /\ fields[1][2].label = <<"S">> /\ fields[1][2].value = <<>>

(***************************************************************************)
(* C23.  replace_upload_inline by the owning borrower on a submission that *)
(* is not FINALIZED changes only the targeted upload's file and            *)
(* original_name and appends one COMMENT event; the submission's status,   *)
(* fields, normalized_payload, normalized_records and normalized_overrides *)
(* are left unchanged (the new file is not parsed), and a GET or a POST    *)
(* without a file changes nothing at all.                                  *)
(***************************************************************************)
C23_ReplaceTouchesOnlyTheUpload ==
  \A upload_id \in 1..Len(uploads) :
    LET sid == uploads[upload_id].submission
        owner == submissions[sid].borrower
    IN submissions[sid].status # "FINALIZED" =>
         \A q \in ReplaceRequests :
           LET r == replace_upload_inline(DB, owner, upload_id, q.method, q.file)
           IN IF q.method = "POST" /\ q.file # Absent
              THEN /\ r.db.submissions = submissions
                   /\ r.db.fields = fields
                   /\ Len(r.db.uploads) = Len(uploads)
                   /\ \A u \in 1..Len(uploads) :
                        IF u = upload_id
                        THEN /\ r.db.uploads[u].file = q.file
                             /\ r.db.uploads[u].original_name = q.file
                             /\ r.db.uploads[u].submission = sid
                        ELSE r.db.uploads[u] = uploads[u]
                   /\ Len(r.db.events) = Len(events) + 1
                   /\ SubSeq(r.db.events, 1, Len(events)) = events
                   /\ LET e == r.db.events[Len(r.db.events)]
                      IN /\ e.event_type = "COMMENT"
                         /\ e.submission = sid
                         /\ e.actor = owner
                         /\ e.from_status = Null /\ e.to_status = Null
              ELSE r.db = DB

\* The owner has just replaced the parsed workbook by its revision: the
\* records and fields are still those of the first parse, and the replacement
\* is logged as a comment.
C23_Witness ==
  /\ last.op = "replace_upload_inline" /\ last.resp = "redirect"
  /\ Len(uploads) = 1 /\ uploads[1].file = "revised.xlsx"
  /\ submissions[1].borrower = last.user
  /\ submissions[1].normalized_records = NtpdRecords
  /\ Len(fields[1]) = 2 /\ fields[1][1].value = <<"1">>
  /\ events[Len(events)].event_type = "COMMENT"

(***************************************************************************)
(* C24.  The event log agrees with the status: in every state reachable by *)
(* a sequence of new_submission, edit_submission, replace_upload_inline,   *)
(* submission_review and edit_submission_data requests, and in the state   *)
(* any further request of the owner or a lender leads to, each             *)
(* submission's status equals the to_status of its most recent event that  *)
(* has a to_status, and the from_status of each such event equals the      *)
(* to_status of the previous such event (null for the first).              *)
(***************************************************************************)
\* The events of submission `sid` that carry a to_status, oldest first.
StatusLog(db, sid) ==
  SelectSeq(db.events, LAMBDA e : e.submission = sid /\ e.to_status # Null)

LogAgrees(db) ==
  \A sid \in 1..Len(db.submissions) :
    LET log == StatusLog(db, sid)
    IN /\ Len(log) >= 1
       /\ db.submissions[sid].status = log[Len(log)].to_status
       /\ log[1].from_status = Null
       /\ \A i \in 2..Len(log) : log[i].from_status = log[i - 1].to_status

C24_LogAgreesWithStatus ==
  /\ LogAgrees(DB)
  /\ \A q \in NewRequests : \A outcome \in ParseOutcomes(q.p.file_1) :
       LogAgrees(new_submission(DB, 1, q.method, q.valid, q.p.form, q.p.file_1,
                                q.p.file_2, outcome).db)
  /\ \A sid \in 1..Len(submissions) :
       LET owner == submissions[sid].borrower
       IN /\ \A q \in EditPosts :
               LogAgrees(EditWith(owner, sid, q.method, q.valid, q.action, q.p).db)
          /\ \A q \in ReviewRequests :
               LogAgrees(submission_review(DB, 2, sid, q.method, q.action, q.valid,
                                           q.message).db)
          /\ \A q \in DataRequests :
               LogAgrees(edit_submission_data(DB, owner, sid, q.method, q.valid, q.rows).db)
          /\ \A upload_id \in 1..Len(uploads), q \in ReplaceRequests :
               LogAgrees(replace_upload_inline(DB, owner, upload_id, q.method, q.file).db)

\* A lender has just sent a draft back: the log holds the creation and the
\* request, chained, and the status is the request's to_status.
C24_Witness ==
  /\ last.op = "submission_review" /\ last.resp = "redirect"
  /\ Len(submissions) = 1 /\ Len(events) = 2
  /\ events[1].from_status = Null /\ events[1].to_status = "DRAFT"
  /\ events[2].event_type = "REQUEST"
  /\ events[2].from_status = "DRAFT" /\ events[2].to_status = "REVISION_REQUIRED"
  /\ submissions[1].status = "REVISION_REQUIRED"

(***************************************************************************)
(* C25.  FINALIZED is a terminal status: once a submission's status is     *)
(* FINALIZED it stays FINALIZED after any later borrower or lender request *)
(* (edit_submission, replace_upload_inline, edit_submission_data, and      *)
(* submission_review with action comment, request_revision or finalize).   *)
(***************************************************************************)
C25_FinalizedIsTerminal ==
  \A sid \in 1..Len(submissions) :
    submissions[sid].status = "FINALIZED" =>
      \A user \in UserIds :
        /\ \A q \in EditRequests :
             EditWith(user, sid, q.method, q.valid, q.action, q.p)
               .db.submissions[sid].status = "FINALIZED"
        /\ \A q \in DataRequests :
             edit_submission_data(DB, user, sid, q.method, q.valid, q.rows)
               .db.submissions[sid].status = "FINALIZED"
        /\ \A upload_id \in 1..Len(uploads), q \in ReplaceRequests :
             replace_upload_inline(DB, user, upload_id, q.method, q.file)
               .db.submissions[sid].status = "FINALIZED"
        /\ \A q \in ReviewRequests :
             submission_review(DB, user, sid, q.method, q.action, q.valid, q.message)
               .db.submissions[sid].status = "FINALIZED"

\* A lender has just finalized a submission: every request is now put to a
\* FINALIZED submission.
C25_Witness ==
  /\ last.op = "submission_review" /\ last.resp = "redirect"
  /\ LenderLike(last.user)
  /\ Len(submissions) = 1 /\ submissions[1].status = "FINALIZED"
  /\ events[Len(events)].to_status = "FINALIZED"

(***************************************************************************)
(* C26.  A submission is reviewed only after it was submitted: a           *)
(* submission's status becomes REVISION_REQUIRED or FINALIZED only by a    *)
(* lender request made while its status is IN_REVIEW, so a DRAFT the       *)
(* borrower never submitted is never finalized or sent back for revision.  *)
(***************************************************************************)
C26_ReviewedOnlyWhenInReview ==
  \A sid \in 1..Len(submissions) :
    \A user \in UserIds, q \in ReviewRequests :
      LET before == submissions[sid].status
          after == submission_review(DB, user, sid, q.method, q.action, q.valid, q.message)
                     .db.submissions[sid].status
      IN (after \in {"REVISION_REQUIRED", "FINALIZED"} /\ after # before) =>
           (before = "IN_REVIEW" /\ LenderLike(user))

\* A lender has just reviewed a submission that was never submitted: its only
\* events are the creation and the lender's, from DRAFT.
C26_Witness ==
  /\ last.op = "submission_review" /\ last.resp = "redirect"
  /\ Len(submissions) = 1 /\ Len(events) = 2
  /\ events[1].to_status = "DRAFT"
  /\ events[2].from_status = "DRAFT"
  /\ events[2].to_status \in {"REVISION_REQUIRED", "FINALIZED"}
  /\ events[2].actor = last.user /\ LenderLike(last.user)
  /\ submissions[1].status = events[2].to_status

(***************************************************************************)
(* SpecRace: a borrower's valid edit_submission POST and a lender's        *)
(* finalize POST on the same submission, served at the same time.  Each    *)
(* view reads the Submission row into its own object and later saves that  *)
(* object (Model.save() without update_fields writes every column); the    *)
(* views open no transaction and take no lock, so the steps of the two     *)
(* requests interleave in any order.  `inflight` holds each request's      *)
(* position and the object it read.                                        *)
(***************************************************************************)
RaceStatuses == {"DRAFT", "IN_REVIEW", "REVISION_REQUIRED"}

InitRace ==
  /\ \E status \in RaceStatuses, title \in {"t1", "t2"} :
       /\ submissions = << [borrower |-> 1, status |-> status, title |-> title,
                            description |-> "",
                            normalized_payload |-> EmptyPayload,
                            normalized_records |-> <<>>,
                            normalized_overrides |-> EmptyDict] >>
       /\ events = << Event(1, 1, "STATUS_CHANGE", InitialMessage, Null, "DRAFT") >>
                     \o (IF status = "IN_REVIEW"
                         THEN << Event(1, 1, "STATUS_CHANGE", BorrowerEditMessage,
                                       "DRAFT", status) >>
                         ELSE IF status = "REVISION_REQUIRED"
                         THEN << Event(1, 2, "REQUEST", "m", "DRAFT", status) >>
                         ELSE <<>>)
  /\ fields = << <<>> >>
  /\ uploads = <<>>
  /\ signups = <<>>
  /\ workbook = <<>>
  /\ inflight = NoneInFlight
  /\ last = NoRequest

\* edit_submission, lines 796-806: the row is read, the owner and FINALIZED
\* checks are made on it.
EditRead ==
  /\ inflight.edit.pc = "idle"
  /\ \E action \in EditActions, form \in Forms :
       LET submission == submissions[1]
           user == submission.borrower
       IN IF IsFinalized(submission)
          THEN /\ inflight' = [inflight EXCEPT !.edit = [pc |-> "done"]]
               /\ last' = Request("edit_submission", user, "forbidden")
          ELSE /\ inflight' = [inflight EXCEPT
                                 !.edit = [pc |-> "checked", user |-> user,
                                           action |-> action, form |-> form,
                                           submission |-> submission]]
               /\ last' = last
  /\ UNCHANGED <<submissions, fields, uploads, events, signups, workbook>>

\* edit_submission, lines 808-853: the forms are valid, the object read
\* earlier gets the form's data and the action's status and is saved, the
\* event is created from the object's statuses, the fields get their values.
EditSave ==
  /\ inflight.edit.pc = "checked"
  /\ LET req == inflight.edit
         old_status == req.submission.status
         new_status == StatusAfterEdit(old_status, req.action)
         saved == [req.submission EXCEPT !.title = req.form.title,
                                         !.description = req.form.description,
                                         !.status = new_status]
     IN /\ submissions' = [submissions EXCEPT ![1] = saved]
        /\ events' = events \o (IF StatusChanged(old_status, new_status)
                                THEN << Event(1, req.user, "STATUS_CHANGE",
                                              BorrowerEditMessage, old_status, new_status) >>
                                ELSE <<>>)
        /\ fields' = [fields EXCEPT
                        ![1] = [i \in 1..Len(fields[1]) |->
                                  [fields[1][i] EXCEPT
                                     !.value = LET v == CleanedValue(fields[1][i].data_type,
                                                                     "filled")
                                               IN IF v = None THEN <<>> ELSE v]]]
        /\ inflight' = [inflight EXCEPT !.edit = [pc |-> "done"]]
        /\ last' = Request("edit_submission", req.user, "redirect")
  /\ UNCHANGED <<uploads, signups, workbook>>

\* submission_review, lines 915-919: the lender's request reads the row.
FinalizeRead ==
  /\ inflight.review.pc = "idle"
  /\ MayReview(2)
  /\ inflight' = [inflight EXCEPT
                    !.review = [pc |-> "read", user |-> 2, submission |-> submissions[1]]]
  /\ UNCHANGED <<submissions, fields, uploads, events, signups, workbook, last>>

\* submission_review, lines 949-962: FINALIZED is saved and logged.
FinalizeSave ==
  /\ inflight.review.pc = "read"
  /\ LET req == inflight.review
         old_status == req.submission.status
         new_status == StatusAfterFinalize(old_status)
     IN /\ submissions' = [submissions EXCEPT
                             ![1] = [req.submission EXCEPT !.status = new_status]]
        /\ events' = Append(events, Event(1, req.user, "STATUS_CHANGE", FinalizeMessage,
                                          old_status, new_status))
        /\ inflight' = [inflight EXCEPT !.review = [pc |-> "done"]]
        /\ last' = Request("submission_review", req.user, "redirect")
  /\ UNCHANGED <<fields, uploads, signups, workbook>>

NextRace == EditRead \/ EditSave \/ FinalizeRead \/ FinalizeSave

SpecRace == InitRace /\ [][NextRace]_vars

(***************************************************************************)
(* C27.  For every interleaving of a borrower's edit_submission POST with  *)
(* a lender's finalize request on the same submission: if the finalize is  *)
(* stored after the borrower's request has read the submission and passed  *)
(* its FINALIZED check but before the borrower's save, the borrower's save *)
(* leaves the stored status FINALIZED; it never overwrites a finalization  *)
(* with DRAFT, IN_REVIEW or a stale status.                                *)
(***************************************************************************)
C27_SaveKeepsFinalization ==
  [][(/\ inflight.edit.pc = "checked"
      /\ inflight.review.pc = "done"
      /\ submissions[1].status = "FINALIZED"
      /\ inflight'.edit.pc = "done")
       => submissions'[1].status = "FINALIZED"]_vars

\* Both requests are over, the finalization is in the log, and the status
\* stored is the one the borrower's save wrote.
C27_Witness ==
  /\ inflight.edit.pc = "done" /\ inflight.review.pc = "done"
  /\ last.op = "edit_submission" /\ last.resp = "redirect"
  /\ \E i \in 1..Len(events) : events[i].to_status = "FINALIZED"
  /\ submissions[1].status # "FINALIZED"

====
